---- MODULE Spec2Model ----
(***************************************************************************)
(* A model of git-pilot's changelist / shelve data-management subsystem:   *)
(* the immutable Changelist record (models/changelist.ts), the            *)
(* ChangelistStore registry (models/changelistStore.ts), the ShelvedFile  *)
(* conflict detection (models/shelvedFile.ts) and the ShelveStore         *)
(* snapshot-and-restore workflow (models/shelveStore.ts).                 *)
(***************************************************************************)
EXTENDS Integers, Sequences, FiniteSets, TLC

(***************************************************************************)
(* Bounds of the model.                                                    *)
(***************************************************************************)
\* how many ids Changelist.generateId hands out in one run
MaxCreated == 2

\* how many ids Shelf.generateId hands out in one run
MaxShelves == 1

\* how many times the workspace files are edited from outside in one run
MaxEdits == 1

\* how many lines the texts given to ShelvedFile.detectConflicts have at most
MaxLines == 3

MaxFiles == 2

MaxDiffLines == 4

MaxLoads == 3

MaxCalls == 2

MaxEvents == 1

\* FileStatusService.CACHE_TTL, in milliseconds
CACHE_TTL == 5000

(***************************************************************************)
(* Inputs.  A name is a sequence of characters so that String.trim() is    *)
(* computed and not assumed; "D" stands for the text 'Default Changelist'. *)
(***************************************************************************)
NameInputs == { <<>>, <<" ">>, <<"a">>, <<" ", "a">>, <<"b">>, <<"D">> }

\* the names SpecFiles and SpecPersisted create and rename changelists with
FewNameInputs == { <<" ">>, <<"a">>, <<" ", "b">> }

\* the names SpecActive creates changelists with
MoreNameInputs == NameInputs \cup { <<"c", " ">>, <<"d">> }

PathInputs == { "p1", "p2" }

\* FileChange values
FileChange(path, relativePath, status) ==
    [ path |-> path, relativePath |-> relativePath, status |-> status ]

FileP1 == FileChange("p1", "r1", "M")

FileP2 == FileChange("p2", "r2", "U")

FileInputs == { FileP1, FileP2 }

\* A file content is the sequence of its lines, content.split('\n'): the
\* empty text is << "" >>.  NoFile is the state of a path that does not exist.
NoFile == <<>>

EmptyText == << "" >>

ContentInputs == { << "a" >>, << "a", "b" >>, << "b", "a" >> }

\* createShelf(name, files, options): the lists of files it is called with
ShelfFilesInputs == { <<>>, << FileP1 >>, << FileP1, FileP2 >> }

\* UnshelveOptions.selectedFiles, when given
SelectedFilesInputs == { { "p1" }, { "p2" } }

ShelfNameInputs == { <<"W">> }

\* UnshelveOptions: keepShelf, forceMerge, selectedFiles
UnshelveOptions(keepShelf, forceMerge, selectedFiles) ==
    [ keepShelf |-> keepShelf, forceMerge |-> forceMerge, selectedFiles |-> selectedFiles ]

UnshelveOptionsInputs ==
    { UnshelveOptions(FALSE, FALSE, [ given |-> FALSE, paths |-> {} ]),
      UnshelveOptions(TRUE, FALSE, [ given |-> FALSE, paths |-> {} ]),
      UnshelveOptions(FALSE, TRUE, [ given |-> FALSE, paths |-> {} ]),
      UnshelveOptions(FALSE, FALSE, [ given |-> TRUE, paths |-> { "p2" } ]) }

DefaultId == <<"default">>

\* an id left in storage by an earlier session
OldId == <<"changelist", 0>>

VARIABLES
    changelists,          \* ChangelistStore.changelists : Map<string, Changelist>, in insertion order
    activeChangelistId,   \* ChangelistStore.activeChangelistId
    nextId,               \* the clock/random source behind Changelist.generateId
    storedChangelists,    \* workspaceState['gitpilot.changelists']
    storedActive,         \* workspaceState['gitpilot.activeChangelist']
    last,                 \* the ChangelistStore call that produced this state, and how it ended
    shelves,              \* ShelveStore.shelves : Map<string, Shelf>, in insertion order
    storedShelves,        \* workspaceState['gitpilot.shelves']
    disk,                 \* the workspace files: path -> content, NoFile when the path does not exist
    workspaceOpen,        \* vscode.workspace.workspaceFolders has a first folder
    nextShelf,            \* the clock/random source behind Shelf.generateId
    pc,                   \* where the ShelveStore call in flight is suspended, "idle" if none is
    frame,                \* the locals of the ShelveStore call in flight
    call,                 \* the last ShelveStore call and how it ended
    pristine,             \* the shelves made by createShelf with default options since when no file changed
    edits,                \* how many times the files have been edited from outside
    arg,                  \* the arguments of the function under check
    ret,                  \* what the function under check returned, NoRet before the call
    changeLists,          \* ChangeListManager._changeLists : Map<string, Changelist>
    view,                 \* HistoryPanel._view is set
    isLoading,            \* HistoryPanel.isLoading
    commits,              \* HistoryPanel.commits
    queries,              \* the gitProvider.raw(['log', ...]) calls of HistoryPanel in flight
    loads,                \* how many loads HistoryPanel has started
    hcall,                \* the last HistoryPanel step, what it did and what it posted
    statusCache,          \* FileStatusService.statusCache : path -> { status, timestamp }
    now,                  \* Date.now()
    gitStatus,            \* what the git backend answers for each path
    epoch,                \* how many watcher events each path has had
    pending,              \* the FileStatusService calls in flight
    asked,                \* how many FileStatusService calls have been made
    fcall                 \* the last FileStatusService step and what it returned

clVars == << changelists, activeChangelistId, nextId, storedChangelists, storedActive, last >>

shVars == << shelves, storedShelves, disk, workspaceOpen, nextShelf, pc, frame, call, pristine,
            edits >>

fnVars == << arg, ret, changeLists >>

hpVars == << view, isLoading, commits, queries, loads, hcall >>

fsVars == << statusCache, now, gitStatus, epoch, pending, asked, fcall >>

svVars == << hpVars, fsVars >>

vars == << clVars, shVars, fnVars, svVars >>

(***************************************************************************)
(* String.prototype.trim on a sequence of characters.                      *)
(***************************************************************************)
IsSpace(c) == c = " "

RECURSIVE TrimStart(_)
TrimStart(s) ==
    IF s = <<>> THEN <<>>
    ELSE IF IsSpace(Head(s)) THEN TrimStart(Tail(s)) ELSE s

RECURSIVE TrimEnd(_)
TrimEnd(s) ==
    IF s = <<>> THEN <<>>
    ELSE IF IsSpace(s[Len(s)]) THEN TrimEnd(SubSeq(s, 1, Len(s) - 1)) ELSE s

Trim(s) == TrimEnd(TrimStart(s))

(***************************************************************************)
(* Changelist (models/changelist.ts).  description, createdAt and          *)
(* modifiedAt are carried by the code but read by no operation below.      *)
(***************************************************************************)
Changelist(id, name, files, isDefault, isActive) ==
    [ id |-> id, name |-> name, files |-> files,
      isDefault |-> isDefault, isActive |-> isActive ]

HasPath(files, path) == \E i \in DOMAIN files : files[i].path = path

\* addFile returns the receiver itself (return this) or a new object
addFileReturnsThis(cl, file) == HasPath(cl.files, file.path)

addFileAlwaysAppends(cl, file) ==
    Changelist(cl.id, cl.name, Append(cl.files, file), cl.isDefault, cl.isActive)

addFile(cl, file) ==
    IF HasPath(cl.files, file.path)
    THEN cl
    ELSE Changelist(cl.id, cl.name, Append(cl.files, file), cl.isDefault, cl.isActive)

\* removeFile returns the receiver itself (return this) or a new object
removeFileReturnsThis(cl, filePath) ==
    Len(SelectSeq(cl.files, LAMBDA f : f.path # filePath)) = Len(cl.files)

removeFile(cl, filePath) ==
    LET filteredFiles == SelectSeq(cl.files, LAMBDA f : f.path # filePath)
    IN  IF Len(filteredFiles) = Len(cl.files)
        THEN cl
        ELSE Changelist(cl.id, cl.name, filteredFiles, cl.isDefault, cl.isActive)

rename(cl, newName) ==
    IF cl.name = newName
    THEN cl
    ELSE Changelist(cl.id, newName, cl.files, cl.isDefault, cl.isActive)

setActive(cl, active) ==
    IF cl.isActive = active
    THEN cl
    ELSE Changelist(cl.id, cl.name, cl.files, cl.isDefault, active)

createDefault == Changelist(DefaultId, <<"D">>, <<>>, TRUE, TRUE)

generateId(n) == <<"changelist", n>>

\* JSON: a value of json.files is an array or it is not (then .map throws)
toJSON(cl) ==
    [ id |-> cl.id, name |-> cl.name,
      files |-> [isArray |-> TRUE, items |-> cl.files],
      isDefault |-> cl.isDefault, isActive |-> cl.isActive ]

fromJSONThrows(json) == ~json.files.isArray

fromJSON(json) ==
    Changelist(json.id, json.name, json.files.items, json.isDefault, json.isActive)

(***************************************************************************)
(* Map<string, Changelist> as the sequence of its values in insertion      *)
(* order; every entry is stored under its own id.                          *)
(***************************************************************************)
MapHas(m, id) == \E i \in DOMAIN m : m[i].id = id

MapIndex(m, id) == CHOOSE i \in DOMAIN m : m[i].id = id

MapGet(m, id) == m[MapIndex(m, id)]

MapSet(m, cl) ==
    IF MapHas(m, cl.id)
    THEN [m EXCEPT ![MapIndex(m, cl.id)] = cl]
    ELSE Append(m, cl)

MapDelete(m, id) == SelectSeq(m, LAMBDA cl : cl.id # id)

MapIds(m) == { m[i].id : i \in DOMAIN m }

(***************************************************************************)
(* ChangelistStore (models/changelistStore.ts).  Each operation is split   *)
(* into the condition under which it throws and the map / active id it     *)
(* leaves behind when it does not.                                         *)
(***************************************************************************)
\* createChangelist without its check for duplicate names
createChangelistThrowsOnlyEmpty(m, name) == Trim(name) = <<>>

createChangelistThrows(m, name) ==
    \/ Trim(name) = <<>>
    \/ \E i \in DOMAIN m : m[i].name = Trim(name)

createChangelistMap(m, name, n) ==
    MapSet(m, Changelist(generateId(n), Trim(name), <<>>, FALSE, FALSE))

\* changelist.files.reduce((cl, file) => cl.addFile(file), defaultChangelist)
RECURSIVE AddFiles(_, _)
AddFiles(cl, files) ==
    IF files = <<>> THEN cl ELSE AddFiles(addFile(cl, Head(files)), Tail(files))

\* for (const file of filesToMove) updatedFrom = updatedFrom.removeFile(file.path)
RECURSIVE RemoveFiles(_, _)
RemoveFiles(cl, files) ==
    IF files = <<>> THEN cl ELSE RemoveFiles(removeFile(cl, Head(files).path), Tail(files))

\* deleteChangelist without its guard of the default changelist
deleteChangelistThrowsOnlyMissing(m, id) == ~MapHas(m, id)

deleteChangelistThrows(m, id) == id = DefaultId \/ ~MapHas(m, id)

\* deleteChangelist that forgets to move the files to the default changelist
deleteChangelistMapDropsFiles(m, id) == MapDelete(m, id)

deleteChangelistMap(m, id) ==
    LET changelist == MapGet(m, id)
        moved == IF Len(changelist.files) > 0
                 THEN MapSet(m, AddFiles(MapGet(m, DefaultId), changelist.files))
                 ELSE m
    IN  MapDelete(moved, id)

deleteChangelistActive(active, id) == IF active = id THEN DefaultId ELSE active

\* renameChangelist without its check for duplicate names
renameChangelistThrowsIgnoresNames(m, id, newName) == Trim(newName) = <<>> \/ ~MapHas(m, id)

renameChangelistThrows(m, id, newName) ==
    \/ Trim(newName) = <<>>
    \/ ~MapHas(m, id)
    \/ \E i \in DOMAIN m : m[i].id # id /\ m[i].name = Trim(newName)

renameChangelistMap(m, id, newName) == MapSet(m, rename(MapGet(m, id), Trim(newName)))

moveFilesThrows(m, fromId, toId) ==
    fromId # toId /\ (~MapHas(m, fromId) \/ ~MapHas(m, toId))

\* fromChangelist.files.filter(f => filePaths.includes(f.path))
filesToMove(m, filePaths, fromId) ==
    SelectSeq(MapGet(m, fromId).files, LAMBDA f : f.path \in filePaths)

moveFilesNoop(m, filePaths, fromId, toId) ==
    \/ fromId = toId
    \/ /\ MapHas(m, fromId) /\ MapHas(m, toId)
       /\ filesToMove(m, filePaths, fromId) = <<>>

\* moveFiles that forgets to write the target changelist back
moveFilesMapDropsMoved(m, filePaths, fromId, toId) ==
    MapSet(m, RemoveFiles(MapGet(m, fromId), filesToMove(m, filePaths, fromId)))

\* moveFiles that forgets to write the source changelist back
moveFilesMapKeepsSource(m, filePaths, fromId, toId) ==
    MapSet(m, AddFiles(MapGet(m, toId), filesToMove(m, filePaths, fromId)))

moveFilesMap(m, filePaths, fromId, toId) ==
    LET files == filesToMove(m, filePaths, fromId)
        updatedFrom == RemoveFiles(MapGet(m, fromId), files)
        updatedTo == AddFiles(MapGet(m, toId), files)
    IN  MapSet(MapSet(m, updatedFrom), updatedTo)

addFileToChangelistMap(m, file, changelistId) ==
    LET changelist == MapGet(m, changelistId)
        updated == addFile(changelist, file)
    IN  IF updated # changelist THEN MapSet(m, updated) ELSE m

\* setActiveChangelist that marks the target and leaves the others alone
setActiveChangelistMapOnlyTarget(m, id) ==
    [ i \in DOMAIN m |-> IF m[i].id = id THEN setActive(m[i], TRUE) ELSE m[i] ]

setActiveChangelistMap(m, id) ==
    [ i \in DOMAIN m |->
        IF m[i].isActive # (m[i].id = id) THEN setActive(m[i], m[i].id = id) ELSE m[i] ]

getAllChangelists == changelists

getActiveChangelist ==
    IF MapHas(changelists, activeChangelistId)
    THEN MapGet(changelists, activeChangelistId)
    ELSE MapGet(changelists, DefaultId)

\* save(): the two workspaceState.update calls
savedChangelists(m) == [ isArray |-> TRUE, items |-> [ i \in DOMAIN m |-> toJSON(m[i]) ] ]

\* load(): the inner loop, skipping the entries Changelist.fromJSON throws on
RECURSIVE loadEntries(_, _)
loadEntries(m, items) ==
    IF items = <<>> THEN m
    ELSE IF fromJSONThrows(Head(items))
         THEN loadEntries(m, Tail(items))
         ELSE loadEntries(MapSet(m, fromJSON(Head(items))), Tail(items))

\* load() without the "ensure default changelist exists" step
loadMapNoDefault(stored) ==
    IF ~stored.isArray THEN << createDefault >> ELSE loadEntries(<<>>, stored.items)

loadMap(stored) ==
    IF ~stored.isArray
    THEN << createDefault >>
    ELSE LET loaded == loadEntries(<<>>, stored.items)
         IN  IF MapHas(loaded, DefaultId) THEN loaded ELSE MapSet(loaded, createDefault)

loadActive(stored, savedActiveId) ==
    IF ~stored.isArray
    THEN DefaultId
    ELSE IF MapHas(loadMap(stored), savedActiveId) THEN savedActiveId ELSE DefaultId

(***************************************************************************)
(* ShelvedFile (models/shelvedFile.ts) and Shelf (models/shelf.ts).        *)
(* status and encoding of a ShelvedFile, branch and parentCommit of a      *)
(* Shelf are read by no operation below.                                   *)
(***************************************************************************)
ShelvedFile(path, relativePath, originalContent, shelvedContent) ==
    [ path |-> path, relativePath |-> relativePath,
      originalContent |-> originalContent, shelvedContent |-> shelvedContent ]

\* timestamp is the clock value the id is made of; branch and parentCommit
\* are the constants 'main' and 'HEAD'
Shelf(id, name, files, changelistId, description) ==
    [ id |-> id, name |-> name, files |-> files, changelistId |-> changelistId,
      description |-> description ]

NoChangelistId == <<"undefined">>

NoDescription == <<>>

generateShelfId(n) == <<"shelf", n>>

\* lines[i] || ''  (i counted from 1)
LineAt(lines, i) == IF i <= Len(lines) THEN lines[i] ELSE ""

Max(a, b) == IF a >= b THEN a ELSE b

canRestore(file, currentContent) == file.originalContent = currentContent

LineConflict(i) == [ kind |-> "Line: conflicting changes", line |-> i ]

LengthChanged == [ kind |-> "File length changed since shelving", line |-> 0 ]

FileMissing == [ kind |-> "File does not exist in workspace", line |-> 0 ]

\* the loop of detectConflicts over the lines from..maxLines
RECURSIVE conflictLines(_, _, _, _, _)
conflictLines(originalLines, currentLines, shelvedLines, from, maxLines) ==
    IF from > maxLines THEN <<>>
    ELSE LET originalLine == LineAt(originalLines, from)
             rest == conflictLines(originalLines, currentLines, shelvedLines, from + 1, maxLines)
         IN  IF /\ originalLine # LineAt(currentLines, from)
                /\ originalLine # LineAt(shelvedLines, from)
             THEN << LineConflict(from) >> \o rest
             ELSE rest

detectConflictsNoLengthCheck(file, currentContent) ==
    IF canRestore(file, currentContent)
    THEN <<>>
    ELSE conflictLines(file.originalContent, currentContent, file.shelvedContent, 1,
                       Max(Len(file.originalContent),
                           Max(Len(currentContent), Len(file.shelvedContent))))

detectConflicts(file, currentContent) ==
    IF canRestore(file, currentContent)
    THEN <<>>
    ELSE LET maxLines == Max(Len(file.originalContent),
                             Max(Len(currentContent), Len(file.shelvedContent)))
             conflicts == conflictLines(file.originalContent, currentContent,
                                        file.shelvedContent, 1, maxLines)
         IN  IF conflicts = <<>> /\ Len(file.originalContent) # Len(currentContent)
             THEN << LengthChanged >>
             ELSE conflicts

(***************************************************************************)
(* ShelveStore (models/shelveStore.ts): the parts that compute.            *)
(***************************************************************************)
ConflictDetails(filePath, conflicts, canResolve) ==
    [ filePath |-> filePath, conflicts |-> conflicts, canResolve |-> canResolve ]

ConflictReportCountsDetails(conflictingFiles, details) ==
    [ hasConflicts |-> Len(details) > 0,
      conflictingFiles |-> conflictingFiles,
      canAutoMerge |-> \A i \in DOMAIN details : details[i].canResolve,
      details |-> details ]

ConflictReport(conflictingFiles, details) ==
    [ hasConflicts |-> Len(conflictingFiles) > 0,
      conflictingFiles |-> conflictingFiles,
      canAutoMerge |-> \A i \in DOMAIN details : details[i].canResolve,
      details |-> details ]

NoReport == ConflictReport(<<>>, <<>>)

\* the loop of previewUnshelve over shelf.files; fs.readFile throws on NoFile
RECURSIVE previewLoop(_, _, _, _)
previewLoop(files, dsk, conflictingFiles, details) ==
    IF files = <<>> THEN ConflictReport(conflictingFiles, details)
    ELSE LET file == Head(files)
             currentContent == dsk[file.path]
         IN  IF currentContent = NoFile
             THEN previewLoop(Tail(files), dsk, conflictingFiles,
                      Append(details,
                             ConflictDetails(file.relativePath, << FileMissing >>, TRUE)))
             ELSE LET conflicts == detectConflicts(file, currentContent)
                  IN  IF Len(conflicts) > 0
                      THEN previewLoop(Tail(files), dsk,
                               Append(conflictingFiles, file.relativePath),
                               Append(details,
                                      ConflictDetails(file.relativePath, conflicts,
                                                      Len(conflicts) = 1)))
                      ELSE previewLoop(Tail(files), dsk, conflictingFiles, details)

previewUnshelveReport(shelf, dsk) == previewLoop(shelf.files, dsk, <<>>, <<>>)

unshelveRefusesNever(report, forceMerge) == FALSE

\* unshelve: the conflict check that ends the call before anything is written
unshelveRefuses(report, forceMerge) == report.hasConflicts /\ ~forceMerge

\* unshelve: shelf.files filtered by options.selectedFiles, when given
filesToRestore(shelf, selectedFiles) ==
    IF selectedFiles.given
    THEN SelectSeq(shelf.files, LAMBDA f : f.path \in selectedFiles.paths)
    ELSE shelf.files

\* restoreFile: does its try block throw (readFile on a missing file, the
\* conflict Error, a failing write)?
restoreFileTryThrows(file, forceMerge, currentContent, ioFails) ==
    IF forceMerge
    THEN ioFails
    ELSE \/ currentContent = NoFile
         \/ ~canRestore(file, currentContent)
         \/ ioFails

\* restoreFile: the content it leaves at file.path and whether it throws; its
\* catch block writes the shelved content whatever the try block threw
restoreFile(file, forceMerge, currentContent, ioFails) ==
    IF ~restoreFileTryThrows(file, forceMerge, currentContent, ioFails)
    THEN [ threw |-> FALSE, content |-> file.shelvedContent ]
    ELSE IF ioFails
         THEN [ threw |-> TRUE, content |-> currentContent ]
         ELSE [ threw |-> FALSE, content |-> file.shelvedContent ]

getOriginalContentEmpty(dsk, path) == EmptyText

\* getOriginalContent: the file read again, '' when the read fails
getOriginalContent(dsk, path) == IF dsk[path] = NoFile THEN EmptyText ELSE dsk[path]

\* createShelvedFile for every file of the list, given the first reads
createShelvedFiles(files, currentContents, dsk) ==
    [ i \in DOMAIN files |->
        ShelvedFile(files[i].path, files[i].relativePath,
                    getOriginalContent(dsk, files[i].path), currentContents[i]) ]

\* removeFilesFromWorkspace: every file is overwritten with the empty text
removeFilesFromWorkspace(dsk, files) ==
    [ p \in DOMAIN dsk |->
        IF \E i \in DOMAIN files : files[i].path = p THEN EmptyText ELSE dsk[p] ]

shelfToJSON(shelf) ==
    [ id |-> shelf.id, name |-> shelf.name,
      files |-> [ isArray |-> TRUE, items |-> shelf.files ],
      changelistId |-> shelf.changelistId, description |-> shelf.description ]

\* Shelf.fromJSON: json.files.map throws when json.files is no array
shelfFromJSONThrows(json) == ~json.files.isArray

shelfFromJSON(json) ==
    Shelf(json.id, json.name, json.files.items, json.changelistId, json.description)

\* ShelveStore.load: the entries in order, those that fail to deserialize skipped
RECURSIVE loadShelves(_)
loadShelves(data) ==
    IF data = <<>> THEN <<>>
    ELSE LET rest == loadShelves(SubSeq(data, 1, Len(data) - 1))
             item == data[Len(data)]
         IN  IF shelfFromJSONThrows(item) THEN rest ELSE MapSet(rest, shelfFromJSON(item))

\* save(): Array.from(this.shelves.values()).map(s => s.toJSON())
savedShelves(m) == [ i \in DOMAIN m |-> shelfToJSON(m[i]) ]

(***************************************************************************)
(* The ShelveStore as constructed over empty storage, no call in flight.   *)
(***************************************************************************)
NoShelfId == <<"none">>

NoSelection == [ given |-> FALSE, paths |-> {} ]

Selection(filePaths) == [ given |-> TRUE, paths |-> filePaths ]

\* call: the last step taken on the ShelveStore or on the files, with the
\* arguments of the call it belongs to; result is "pending" while the call is
\* suspended.  quiet: the shelf was in pristine when the call began and no
\* file has been edited since.
ShelfCallWith(op, result, shelfId, report, keepShelf, forceMerge, selectedFiles, quiet) ==
    [ op |-> op, result |-> result, shelfId |-> shelfId, report |-> report,
      keepShelf |-> keepShelf, forceMerge |-> forceMerge,
      selectedFiles |-> selectedFiles, quiet |-> quiet ]

ShelfCall(op, result, shelfId, report) ==
    ShelfCallWith(op, result, shelfId, report, FALSE, FALSE, NoSelection, FALSE)

Frame(op, name, shelfId, files, currentContents, remaining, keepShelf, forceMerge, selectedFiles, removeFromWorkspace, report, quiet) ==
    [ op |-> op, name |-> name, shelfId |-> shelfId, files |-> files,
      currentContents |-> currentContents, remaining |-> remaining,
      keepShelf |-> keepShelf, forceMerge |-> forceMerge,
      selectedFiles |-> selectedFiles, removeFromWorkspace |-> removeFromWorkspace,
      report |-> report, quiet |-> quiet ]

NoFrame == Frame("none", <<>>, NoShelfId, <<>>, <<>>, <<>>, FALSE, FALSE,
                 NoSelection, FALSE, NoReport, FALSE)

InitDisk == [ p \in PathInputs |-> IF p = "p1" THEN << "a" >> ELSE << "a", "b" >> ]

InitShelve ==
    /\ shelves = <<>>
    /\ storedShelves = <<>>
    /\ disk = InitDisk
    /\ workspaceOpen \in BOOLEAN
    /\ nextShelf = 1
    /\ pc = "idle"
    /\ frame = NoFrame
    /\ call = ShelfCall("constructor", "ok", NoShelfId, NoReport)
    /\ pristine = {}
    /\ edits = 0

\* no function is under check
NoArg == [ op |-> "none" ]

NoRet == [ op |-> "none" ]

\* ChangeListManager.initializeDefaultChangeList
initializeDefaultChangeList == << Changelist(DefaultId, <<"D">>, <<>>, TRUE, TRUE) >>

FnUnused ==
    /\ arg = NoArg
    /\ ret = NoRet
    /\ changeLists = initializeDefaultChangeList

\* the ShelveStore part of the state in the specifications of the ChangelistStore
ShelveUnused ==
    /\ shelves = <<>>
    /\ storedShelves = <<>>
    /\ disk = InitDisk
    /\ workspaceOpen = TRUE
    /\ nextShelf = 1
    /\ pc = "idle"
    /\ frame = NoFrame
    /\ call = ShelfCall("constructor", "ok", NoShelfId, NoReport)
    /\ pristine = {}
    /\ edits = 0

(***************************************************************************)
(* The calls.  last names the call that produced the state, how it ended   *)
(* ("ok", "noop" for an early return, "throw"), the number of files it had *)
(* to handle (the files of a deleted changelist, the files to move) and    *)
(* the ids and paths it was called with.                                   *)
(***************************************************************************)
CallWith(op, result, n, id, toId, paths) ==
    [ op |-> op, result |-> result, n |-> n, id |-> id, toId |-> toId, paths |-> paths ]

Call(op, result, n) == CallWith(op, result, n, DefaultId, DefaultId, {})

AllIds == { DefaultId } \cup { generateId(n) : n \in 1..MaxCreated }

FreshStorage == [ isArray |-> TRUE, items |-> <<>> ]

(***************************************************************************)
(* HistoryPanel and FileStatusService as constructed.                      *)
(***************************************************************************)
HistoryCallWith(op, result, posts) == [ op |-> op, result |-> result, posts |-> posts ]

\* HistoryPanel: _view undefined, commits = [], isLoading = false
InitHistoryPanel ==
    /\ view = FALSE
    /\ isLoading = FALSE
    /\ commits = <<>>
    /\ queries = <<>>
    /\ loads = 0
    /\ hcall = HistoryCallWith("constructor", "ok", <<>>)

NoEntry == [ cached |-> FALSE ]

\* { status, timestamp }, with the watcher events the path had had when git
\* reported the status (asOf) and when the call that cached it started (since)
CacheEntry(status, timestamp, asOf, since) ==
    [ cached |-> TRUE, status |-> status, timestamp |-> timestamp, asOf |-> asOf,
      since |-> since ]

NoStatus == "undefined"

\* one status handed back by a FileStatusService call
Returned(path, status, asOf, since) ==
    [ path |-> path, status |-> status, asOf |-> asOf, since |-> since ]

StatusCallWith(op, result, returned) == [ op |-> op, result |-> result, returned |-> returned ]

\* FileStatusService: statusCache = new Map(), every path clean in git
InitFileStatusService ==
    /\ statusCache = [ p \in PathInputs |-> NoEntry ]
    /\ now = 0
    /\ gitStatus = [ p \in PathInputs |-> "clean" ]
    /\ epoch = [ p \in PathInputs |-> 0 ]
    /\ pending = <<>>
    /\ asked = 0
    /\ fcall = StatusCallWith("constructor", "ok", <<>>)

InitServices ==
    /\ InitHistoryPanel
    /\ InitFileStatusService

InitStore ==
    /\ changelists = << createDefault >>
    /\ activeChangelistId = DefaultId
    /\ nextId = 1
    /\ last = Call("constructor", "ok", 0)

\* both stores as constructed over empty storage
InitStores ==
    /\ InitStore
    /\ storedChangelists = FreshStorage
    /\ storedActive = DefaultId
    /\ ShelveUnused
    /\ InitServices

Init ==
    /\ InitStores
    /\ FnUnused

createChangelist(name) ==
    /\ UNCHANGED << shVars, fnVars, svVars >>
    /\ IF createChangelistThrows(changelists, name)
       THEN /\ UNCHANGED << changelists, nextId >>
            /\ last' = Call("createChangelist", "throw", 0)
       ELSE /\ nextId <= MaxCreated
            /\ changelists' = createChangelistMap(changelists, name, nextId)
            /\ nextId' = nextId + 1
            /\ last' = Call("createChangelist", "ok", 0)
    /\ UNCHANGED << activeChangelistId, storedChangelists, storedActive >>

deleteChangelist(id) ==
    /\ UNCHANGED << shVars, fnVars, svVars >>
    /\ IF deleteChangelistThrows(changelists, id)
       THEN /\ UNCHANGED << changelists, activeChangelistId >>
            /\ last' = CallWith("deleteChangelist", "throw", 0, id, DefaultId, {})
       ELSE /\ changelists' = deleteChangelistMap(changelists, id)
            /\ activeChangelistId' = deleteChangelistActive(activeChangelistId, id)
            /\ last' = CallWith("deleteChangelist", "ok", Len(MapGet(changelists, id).files), id, DefaultId, {})
    /\ UNCHANGED << nextId, storedChangelists, storedActive >>

renameChangelist(id, newName) ==
    /\ UNCHANGED << shVars, fnVars, svVars >>
    /\ IF renameChangelistThrows(changelists, id, newName)
       THEN /\ UNCHANGED changelists
            /\ last' = CallWith("renameChangelist", "throw", 0, id, DefaultId, {})
       ELSE /\ changelists' = renameChangelistMap(changelists, id, newName)
            /\ last' = CallWith("renameChangelist", "ok", 0, id, DefaultId, {})
    /\ UNCHANGED << activeChangelistId, nextId, storedChangelists, storedActive >>

\* moveFiles that returns silently where it should throw
moveFilesSilent(filePaths, fromId, toId) ==
    /\ UNCHANGED << shVars, fnVars, svVars >>
    /\ IF moveFilesThrows(changelists, fromId, toId) \/ moveFilesNoop(changelists, filePaths, fromId, toId)
       THEN /\ UNCHANGED changelists
            /\ last' = CallWith("moveFiles", "noop", 0, fromId, toId, filePaths)
       ELSE /\ changelists' = moveFilesMap(changelists, filePaths, fromId, toId)
            /\ last' = CallWith("moveFiles", "ok", Len(filesToMove(changelists, filePaths, fromId)), fromId, toId, filePaths)
    /\ UNCHANGED << activeChangelistId, nextId, storedChangelists, storedActive >>

moveFiles(filePaths, fromId, toId) ==
    /\ UNCHANGED << shVars, fnVars, svVars >>
    /\ IF moveFilesThrows(changelists, fromId, toId)
       THEN /\ UNCHANGED changelists
            /\ last' = CallWith("moveFiles", "throw", 0, fromId, toId, filePaths)
       ELSE IF moveFilesNoop(changelists, filePaths, fromId, toId)
       THEN /\ UNCHANGED changelists
            /\ last' = CallWith("moveFiles", "noop", 0, fromId, toId, filePaths)
       ELSE /\ changelists' = moveFilesMap(changelists, filePaths, fromId, toId)
            /\ last' = CallWith("moveFiles", "ok", Len(filesToMove(changelists, filePaths, fromId)), fromId, toId, filePaths)
    /\ UNCHANGED << activeChangelistId, nextId, storedChangelists, storedActive >>

addFileToChangelist(file, changelistId) ==
    /\ UNCHANGED << shVars, fnVars, svVars >>
    /\ IF ~MapHas(changelists, changelistId)
       THEN /\ UNCHANGED changelists
            /\ last' = CallWith("addFileToChangelist", "throw", 0, changelistId, DefaultId, {file.path})
       ELSE /\ changelists' = addFileToChangelistMap(changelists, file, changelistId)
            /\ last' = CallWith("addFileToChangelist", "ok", 0, changelistId, DefaultId, {file.path})
    /\ UNCHANGED << activeChangelistId, nextId, storedChangelists, storedActive >>

setActiveChangelist(id) ==
    /\ UNCHANGED << shVars, fnVars, svVars >>
    /\ IF ~MapHas(changelists, id)
       THEN /\ UNCHANGED << changelists, activeChangelistId >>
            /\ last' = CallWith("setActiveChangelist", "throw", 0, id, DefaultId, {})
       ELSE /\ changelists' = setActiveChangelistMap(changelists, id)
            /\ activeChangelistId' = id
            /\ last' = CallWith("setActiveChangelist", "ok", 0, id, DefaultId, {})
    /\ UNCHANGED << nextId, storedChangelists, storedActive >>

save ==
    /\ UNCHANGED << shVars, fnVars, svVars >>
    /\ storedChangelists' = savedChangelists(changelists)
    /\ storedActive' = activeChangelistId
    /\ last' = Call("save", "ok", 0)
    /\ UNCHANGED << changelists, activeChangelistId, nextId >>

load ==
    /\ UNCHANGED << shVars, fnVars, svVars >>
    /\ changelists' = loadMap(storedChangelists)
    /\ activeChangelistId' = loadActive(storedChangelists, storedActive)
    /\ last' = Call("load", "ok", 0)
    /\ UNCHANGED << nextId, storedChangelists, storedActive >>

(***************************************************************************)
(* Specifications.                                                         *)
(*   SpecActive : a constructed store under createChangelist and           *)
(*                setActiveChangelist.                                     *)
(*   SpecStore  : the store under its mutators and save() / load().        *)
(*   SpecFiles  : the store with files entering through                    *)
(*                addFileToChangelist and moved by moveFiles and           *)
(*                deleteChangelist, storage untouched.                     *)
(***************************************************************************)
NextActive ==
    \/ \E name \in MoreNameInputs : createChangelist(name)
    \/ \E id \in AllIds : setActiveChangelist(id)

SpecActive == Init /\ [][NextActive]_vars

NextStore ==
    \/ \E name \in NameInputs : createChangelist(name)
    \/ \E id \in AllIds : deleteChangelist(id)
    \/ \E id \in AllIds, newName \in NameInputs : renameChangelist(id, newName)
    \/ \E filePaths \in SUBSET PathInputs, fromId \in AllIds, toId \in AllIds :
          moveFiles(filePaths, fromId, toId)
    \/ \E id \in AllIds : setActiveChangelist(id)
    \/ save
    \/ load

SpecStore == Init /\ [][NextStore]_vars

NextFiles ==
    \/ \E name \in FewNameInputs : createChangelist(name)
    \/ \E id \in AllIds : deleteChangelist(id)
    \/ \E filePaths \in SUBSET PathInputs, fromId \in AllIds, toId \in AllIds :
          moveFiles(filePaths, fromId, toId)
    \/ \E file \in FileInputs, id \in AllIds : addFileToChangelist(file, id)
    \/ \E id \in AllIds : setActiveChangelist(id)

SpecFiles == Init /\ [][NextFiles]_vars

(***************************************************************************)
(*   SpecNames : createChangelist, renameChangelist and deleteChangelist   *)
(*   competing for names                                                   *)
(***************************************************************************)
NextNames ==
    \/ \E name \in MoreNameInputs : createChangelist(name)
    \/ \E id \in AllIds, newName \in MoreNameInputs : renameChangelist(id, newName)
    \/ \E id \in AllIds : deleteChangelist(id)

SpecNames == Init /\ [][NextNames]_vars

(***************************************************************************)
(*   SpecPersisted : the store over whatever an earlier session left in    *)
(*                   workspaceState, read by load().                       *)
(***************************************************************************)
OldChangelist == Changelist(OldId, <<"a">>, << FileP1 >>, FALSE, TRUE)

\* an entry Changelist.fromJSON throws on: json.files is no array
BrokenEntry(cl) == [ toJSON(cl) EXCEPT !.files = [isArray |-> FALSE, items |-> <<>>] ]

PersistedInputs ==
    { [ changelists |-> FreshStorage, active |-> DefaultId ],
      [ changelists |-> [isArray |-> FALSE, items |-> <<>>], active |-> OldId ],
      [ changelists |-> [isArray |-> TRUE, items |-> << toJSON(OldChangelist) >>],
        active |-> OldId ],
      [ changelists |-> [isArray |-> TRUE,
                         items |-> << BrokenEntry(createDefault), toJSON(OldChangelist) >>],
        active |-> DefaultId ],
      [ changelists |-> [isArray |-> TRUE,
                         items |-> << toJSON(setActive(createDefault, FALSE)),
                                      BrokenEntry(OldChangelist) >>],
        active |-> OldId ],
      [ changelists |-> [isArray |-> TRUE,
                         items |-> << toJSON(addFile(setActive(createDefault, FALSE), FileP2)),
                                      toJSON(OldChangelist) >>],
        active |-> OldId ] }

InitPersisted ==
    /\ InitStore
    /\ ShelveUnused
    /\ InitServices
    /\ FnUnused
    /\ \E persisted \in PersistedInputs :
          /\ storedChangelists = persisted.changelists
          /\ storedActive = persisted.active

\* moveFiles(filePaths, ...) over persisted changelists
MovedPathsInputs == { { "p1" }, { "p1", "p2" } }

PersistedIds == AllIds \cup { OldId }

NextPersisted ==
    \/ \E name \in FewNameInputs : createChangelist(name)
    \/ \E id \in PersistedIds : deleteChangelist(id)
    \/ \E id \in PersistedIds, newName \in FewNameInputs : renameChangelist(id, newName)
    \/ \E filePaths \in MovedPathsInputs, fromId \in PersistedIds, toId \in PersistedIds :
          moveFiles(filePaths, fromId, toId)
    \/ \E id \in PersistedIds : setActiveChangelist(id)
    \/ load

SpecPersisted == InitPersisted /\ [][NextPersisted]_vars

(***************************************************************************)
(* Properties of the ChangelistStore.                                      *)
(***************************************************************************)
ActiveFlagged == { i \in DOMAIN changelists : changelists[i].isActive }

PathsOf(files) == { files[i].path : i \in DOMAIN files }

\* C1: in a store built by the constructor and createChangelist calls, after
\* any sequence of setActiveChangelist calls (throwing ones included) exactly
\* one changelist of getAllChangelists() has isActive = true.
C1_ExactlyOneActive == Cardinality(ActiveFlagged) = 1

\* setActiveChangelist has moved the flag to a created changelist among three
C1_Witness ==
    /\ last.op = "setActiveChangelist" /\ last.result = "ok"
    /\ Len(changelists) = 3
    /\ activeChangelistId # DefaultId
    /\ MapGet(changelists, activeChangelistId).isActive

\* C2: in every state reachable through createChangelist, deleteChangelist,
\* renameChangelist, moveFiles, setActiveChangelist and save() / load(),
\* exactly one changelist has isActive = true and it is the one
\* getActiveChangelist() returns; after deleting the active changelist this
\* is the default changelist.
C2_OneActiveIsGetActive ==
    /\ Cardinality(ActiveFlagged) = 1
    /\ getActiveChangelist.isActive
    /\ (last.op = "deleteChangelist" /\ last.result = "ok" /\ activeChangelistId = DefaultId)
          => MapGet(changelists, DefaultId).isActive

\* C3: a changelist with id 'default' is in the store in every reachable
\* state, whatever load() finds in storage; load() skips the entries that
\* fail to deserialize and still loads the others.
C3_DefaultPresent ==
    /\ MapHas(changelists, DefaultId)
    /\ (last.op = "load" /\ storedChangelists.isArray) =>
          \A i \in DOMAIN storedChangelists.items :
              ~fromJSONThrows(storedChangelists.items[i]) =>
                  MapHas(changelists, storedChangelists.items[i].id)

\* load() has skipped a broken entry, kept another one and supplied the default
C3_Witness ==
    /\ last.op = "load"
    /\ storedChangelists.isArray
    /\ \E i \in DOMAIN storedChangelists.items :
          /\ fromJSONThrows(storedChangelists.items[i])
          /\ storedChangelists.items[i].id = DefaultId
    /\ MapHas(changelists, OldId)
    /\ MapHas(changelists, DefaultId)

\* C4: deleteChangelist(id) of an existing non-default changelist holding N
\* files removes id from the store and leaves each of the N paths in the
\* default changelist, which keeps its previous files in order and grows by
\* exactly the number of paths it did not hold before (so by at most N).
C4_DeleteMovesFilesToDefault ==
    [][ ( /\ last'.op = "deleteChangelist"
          /\ last'.id # DefaultId
          /\ MapHas(changelists, last'.id) ) =>
            LET target == MapGet(changelists, last'.id).files
                before == MapGet(changelists, DefaultId).files
                after  == MapGet(changelists', DefaultId).files
            IN  /\ last'.result = "ok"
                /\ ~MapHas(changelists', last'.id)
                /\ PathsOf(target) \subseteq PathsOf(after)
                /\ Len(after) >= Len(before)
                /\ SubSeq(after, 1, Len(before)) = before
                /\ Len(after) - Len(before) = Cardinality(PathsOf(target) \ PathsOf(before))
                /\ Len(after) <= Len(before) + Len(target)
      ]_vars

\* a changelist with two files has been deleted and the default changelist
\* holds both paths, once each
C4_Witness ==
    /\ last.op = "deleteChangelist" /\ last.result = "ok" /\ last.n = 2
    /\ Len(MapGet(changelists, DefaultId).files) = 2
    /\ MapGet(changelists, DefaultId).files[1].path = "p2"

\* C5: for existing, distinct fromId and toId, moveFiles(paths, fromId, toId)
\* does not throw; every listed path that was in the source leaves the source
\* and is in the target, the unlisted source files stay, the target keeps its
\* previous files in order followed by the moved files it did not hold, and
\* every other changelist and the active id are unchanged.
C5_MoveFiles ==
    [][ ( /\ last'.op = "moveFiles"
          /\ last'.id # last'.toId
          /\ MapHas(changelists, last'.id) /\ MapHas(changelists, last'.toId) ) =>
            LET source  == MapGet(changelists, last'.id).files
                target  == MapGet(changelists, last'.toId).files
                source2 == MapGet(changelists', last'.id).files
                target2 == MapGet(changelists', last'.toId).files
            IN  /\ last'.result # "throw"
                /\ \A p \in last'.paths \cap PathsOf(source) :
                      p \notin PathsOf(source2) /\ p \in PathsOf(target2)
                /\ source2 = SelectSeq(source, LAMBDA f : f.path \notin last'.paths)
                /\ target2 = target \o SelectSeq(source,
                                 LAMBDA f : f.path \in last'.paths /\ f.path \notin PathsOf(target))
                /\ MapIds(changelists') = MapIds(changelists)
                /\ \A id \in MapIds(changelists) \ { last'.id, last'.toId } :
                      MapGet(changelists', id) = MapGet(changelists, id)
                /\ activeChangelistId' = activeChangelistId
      ]_vars

\* two files have been moved at once into a changelist that held one of them
C5_Witness ==
    /\ last.op = "moveFiles" /\ last.result = "ok" /\ last.n = 2
    /\ last.paths = PathInputs
    /\ last.id = DefaultId /\ last.toId # DefaultId
    /\ MapGet(changelists, DefaultId).files = <<>>
    /\ Len(MapGet(changelists, last.toId).files) = 2

(***************************************************************************)
(* The calls of the ShelveStore.  Its methods are async: a call that       *)
(* awaits the file system is suspended there, and the files can be edited  *)
(* from outside (Edit) before it resumes.  One ShelveStore call is in      *)
(* flight at a time.                                                       *)
(***************************************************************************)
ShelfIds == { generateShelfId(n) : n \in 1..MaxShelves }

\* unshelve, after the last file is restored: the shelf is dropped unless kept
unshelveFinishKeepsAll(m, shelfId, keepShelf) == m

unshelveFinish(m, shelfId, keepShelf) ==
    IF keepShelf THEN m ELSE MapDelete(m, shelfId)

\* createShelf up to the first reads of createShelvedFile
createShelf(name, files, removeFromWorkspace) ==
    /\ pc = "idle"
    /\ UNCHANGED << clVars, fnVars, svVars, shelves, storedShelves, disk, workspaceOpen, nextShelf,
                    pristine, edits >>
    /\ IF ~workspaceOpen
       THEN /\ call' = ShelfCall("createShelf", "throw:No workspace folder found",
                                 NoShelfId, NoReport)
            /\ UNCHANGED << pc, frame >>
       ELSE IF Len(files) = 0
       THEN /\ call' = ShelfCall("createShelf", "throw:No files selected for shelving",
                                 NoShelfId, NoReport)
            /\ UNCHANGED << pc, frame >>
       ELSE IF \E i \in DOMAIN files : disk[files[i].path] = NoFile
       THEN /\ call' = ShelfCall("createShelf", "throw:readFile", NoShelfId, NoReport)
            /\ UNCHANGED << pc, frame >>
       ELSE /\ nextShelf <= MaxShelves
            /\ pc' = "createShelf"
            /\ frame' = Frame("createShelf", name, NoShelfId, files,
                              [ i \in DOMAIN files |-> disk[files[i].path] ], <<>>,
                              FALSE, FALSE, NoSelection, removeFromWorkspace,
                              NoReport, FALSE)
            /\ call' = ShelfCall("createShelf", "pending", NoShelfId, NoReport)

\* createShelf from the reads of getOriginalContent to its return
createShelfResume ==
    /\ pc = "createShelf"
    /\ LET shelf == Shelf(generateShelfId(nextShelf), frame.name,
                          createShelvedFiles(frame.files, frame.currentContents, disk),
                          NoChangelistId, NoDescription)
       IN  /\ shelves' = MapSet(shelves, shelf)
           /\ storedShelves' = savedShelves(shelves')
           /\ disk' = IF frame.removeFromWorkspace
                      THEN removeFilesFromWorkspace(disk, frame.files)
                      ELSE disk
           /\ pristine' = IF frame.removeFromWorkspace
                          THEN (IF disk' = disk THEN pristine ELSE {})
                          ELSE pristine \cup { shelf.id }
           /\ call' = ShelfCallWith("createShelf", "ok", shelf.id, NoReport, FALSE, FALSE,
                                    NoSelection, ~frame.removeFromWorkspace)
    /\ nextShelf' = nextShelf + 1
    /\ pc' = "idle"
    /\ frame' = NoFrame
    /\ UNCHANGED << clVars, fnVars, svVars, workspaceOpen, edits >>

\* unshelve up to the first restoreFile
unshelveCall(op, shelfId, keepShelf, forceMerge, selectedFiles) ==
    /\ pc = "idle"
    /\ UNCHANGED << clVars, fnVars, svVars, disk, workspaceOpen, nextShelf, edits >>
    /\ IF ~MapHas(shelves, shelfId)
       THEN /\ call' = ShelfCallWith(op, "throw:Shelf not found", shelfId, NoReport,
                                     keepShelf, forceMerge, selectedFiles, FALSE)
            /\ UNCHANGED << shelves, storedShelves, pc, frame, pristine >>
       ELSE LET shelf == MapGet(shelves, shelfId)
                conflicts == previewUnshelveReport(shelf, disk)
                remaining == filesToRestore(shelf, selectedFiles)
                quiet == shelfId \in pristine
            IN  IF unshelveRefuses(conflicts, forceMerge)
                THEN /\ call' = ShelfCallWith(op, "throw:Cannot unshelve: conflicts", shelfId,
                                              conflicts, keepShelf, forceMerge,
                                              selectedFiles, quiet)
                     /\ UNCHANGED << shelves, storedShelves, pc, frame, pristine >>
                ELSE IF remaining = <<>>
                THEN /\ shelves' = unshelveFinish(shelves, shelfId, keepShelf)
                     /\ storedShelves' = IF keepShelf THEN storedShelves
                                         ELSE savedShelves(shelves')
                     /\ call' = ShelfCallWith(op, "ok", shelfId, conflicts, keepShelf,
                                              forceMerge, selectedFiles, quiet)
                     /\ pristine' = pristine \ { shelfId }
                     /\ UNCHANGED << pc, frame >>
                ELSE /\ pc' = "unshelve"
                     /\ frame' = Frame(op, shelf.name, shelfId, shelf.files, <<>>, remaining,
                                       keepShelf, forceMerge, selectedFiles, FALSE,
                                       conflicts, quiet)
                     /\ call' = ShelfCallWith(op, "pending", shelfId, conflicts, keepShelf,
                                              forceMerge, selectedFiles, quiet)
                     /\ pristine' = pristine \ { shelfId }
                     /\ UNCHANGED << shelves, storedShelves >>

unshelve(shelfId, keepShelf, forceMerge, selectedFiles) ==
    unshelveCall("unshelve", shelfId, keepShelf, forceMerge, selectedFiles)

partialUnshelve(shelfId, filePaths) ==
    unshelveCall("partialUnshelve", shelfId, TRUE, FALSE, Selection(filePaths))

\* unshelve: one restoreFile of its loop and, after the last one, its return;
\* writeFails: the writes of this restoreFile are rejected by the file system
unshelveRestore(writeFails) ==
    /\ pc = "unshelve"
    /\ UNCHANGED << clVars, fnVars, svVars, workspaceOpen, nextShelf, edits >>
    /\ LET file == Head(frame.remaining)
           restored == restoreFile(file, frame.forceMerge, disk[file.path], writeFails)
           done == ShelfCallWith(frame.op, "ok", frame.shelfId, frame.report,
                                 frame.keepShelf, frame.forceMerge, frame.selectedFiles,
                                 frame.quiet)
       IN  IF restored.threw
           THEN /\ call' = [ done EXCEPT !.result = "throw:writeFile" ]
                /\ pc' = "idle"
                /\ frame' = NoFrame
                /\ UNCHANGED << shelves, storedShelves, disk, pristine >>
           ELSE /\ disk' = [ disk EXCEPT ![file.path] = restored.content ]
                /\ pristine' = IF disk' = disk THEN pristine ELSE {}
                /\ IF Tail(frame.remaining) = <<>>
                   THEN /\ shelves' = unshelveFinish(shelves, frame.shelfId, frame.keepShelf)
                        /\ storedShelves' = IF frame.keepShelf THEN storedShelves
                                            ELSE savedShelves(shelves')
                        /\ call' = done
                        /\ pc' = "idle"
                        /\ frame' = NoFrame
                   ELSE /\ frame' = [ frame EXCEPT !.remaining = Tail(frame.remaining) ]
                        /\ call' = [ done EXCEPT !.result = "pending" ]
                        /\ UNCHANGED << shelves, storedShelves, pc >>

previewUnshelve(shelfId) ==
    /\ pc = "idle"
    /\ call' = IF ~MapHas(shelves, shelfId)
               THEN ShelfCall("previewUnshelve", "throw:Shelf not found", shelfId, NoReport)
               ELSE ShelfCallWith("previewUnshelve", "ok", shelfId,
                                  previewUnshelveReport(MapGet(shelves, shelfId), disk),
                                  FALSE, FALSE, NoSelection, shelfId \in pristine)
    /\ UNCHANGED << clVars, fnVars, svVars, shelves, storedShelves, disk, workspaceOpen, nextShelf, pc,
                    frame, pristine, edits >>

deleteShelf(shelfId) ==
    /\ pc = "idle"
    /\ UNCHANGED << clVars, fnVars, svVars, disk, workspaceOpen, nextShelf, pc, frame, edits >>
    /\ IF ~MapHas(shelves, shelfId)
       THEN /\ call' = ShelfCall("deleteShelf", "throw:Shelf not found", shelfId, NoReport)
            /\ UNCHANGED << shelves, storedShelves, pristine >>
       ELSE /\ shelves' = MapDelete(shelves, shelfId)
            /\ storedShelves' = savedShelves(shelves')
            /\ pristine' = pristine \ { shelfId }
            /\ call' = ShelfCall("deleteShelf", "ok", shelfId, NoReport)

\* somebody else writes, creates or removes a workspace file
Edit(path, content) ==
    /\ edits < MaxEdits
    /\ edits' = edits + 1
    /\ disk[path] # content
    /\ disk' = [ disk EXCEPT ![path] = content ]
    /\ pristine' = {}
    /\ frame' = [ frame EXCEPT !.quiet = FALSE ]
    /\ call' = ShelfCall("Edit", "ok", NoShelfId, NoReport)
    /\ UNCHANGED << clVars, fnVars, svVars, shelves, storedShelves, workspaceOpen, nextShelf, pc >>

(***************************************************************************)
(*   SpecShelve : the ShelveStore over a workspace of two files            *)
(***************************************************************************)
InitShelveSpec ==
    /\ InitStore
    /\ storedChangelists = FreshStorage
    /\ storedActive = DefaultId
    /\ InitShelve
    /\ InitServices
    /\ FnUnused

NextShelve ==
    \/ \E name \in ShelfNameInputs, files \in ShelfFilesInputs, removeFromWorkspace \in BOOLEAN :
          createShelf(name, files, removeFromWorkspace)
    \/ createShelfResume
    \/ \E shelfId \in ShelfIds, options \in UnshelveOptionsInputs :
          unshelve(shelfId, options.keepShelf, options.forceMerge, options.selectedFiles)
    \/ \E writeFails \in BOOLEAN : unshelveRestore(writeFails)
    \/ \E shelfId \in ShelfIds, filePaths \in SelectedFilesInputs :
          partialUnshelve(shelfId, filePaths)
    \/ \E shelfId \in ShelfIds : previewUnshelve(shelfId)
    \/ \E shelfId \in ShelfIds : deleteShelf(shelfId)
    \/ \E path \in PathInputs, content \in ContentInputs \cup { NoFile } : Edit(path, content)

SpecShelve == InitShelveSpec /\ [][NextShelve]_vars

(***************************************************************************)
(* Properties of the ShelveStore                                           *)
(***************************************************************************)
UnshelveOps == { "unshelve", "partialUnshelve" }

ConflictThrown == "throw:Cannot unshelve: conflicts"

WriteThrown == "throw:writeFile"

\* C6: an unshelve without forceMerge of a shelf for which previewUnshelve
\* reports conflicts throws the conflict error, and that call writes nothing:
\* every file keeps its content, the shelf stays in the store and in storage.
C6_ConflictsRefuseUnshelve ==
    [][ ( /\ pc = "idle"
          /\ call'.op \in UnshelveOps
          /\ ~call'.forceMerge
          /\ MapHas(shelves, call'.shelfId)
          /\ previewUnshelveReport(MapGet(shelves, call'.shelfId), disk).hasConflicts )
        => ( /\ call'.result = ConflictThrown
             /\ pc' = "idle"
             /\ disk' = disk
             /\ shelves' = shelves
             /\ storedShelves' = storedShelves
             /\ MapHas(shelves', call'.shelfId) ) ]_vars

C6_Witness ==
    /\ call.op = "unshelve"
    /\ ~call.forceMerge
    /\ call.result = ConflictThrown
    /\ call.report.hasConflicts
    /\ MapHas(shelves, call.shelfId)

\* C7: a restoreFile of an unshelve without forceMerge changes an existing
\* file only if canRestore holds for its content, and for an existing file
\* whose content differs from the captured original it throws and leaves the
\* content as it is.
C7_RestoreOnlyWhenCanRestore ==
    [][ ( /\ pc = "unshelve"
          /\ call'.op \in UnshelveOps
          /\ ~frame.forceMerge
          /\ disk[Head(frame.remaining).path] # NoFile )
        => LET file == Head(frame.remaining)
               currentContent == disk[file.path]
           IN  /\ disk'[file.path] # currentContent => canRestore(file, currentContent)
               /\ ~canRestore(file, currentContent)
                     => /\ call'.result \notin { "ok", "pending" }
                        /\ disk'[file.path] = currentContent ]_vars

\* C8: unshelve removes the shelf only in the step that ends it successfully,
\* after the last selected file is written, and only without keepShelf: after
\* such an end getShelf(id) is undefined; after an end with keepShelf or of
\* partialUnshelve the shelf is there with its files unchanged; when the call
\* throws on conflicts or on a write the shelf is there, unchanged.
C8_ShelfRemovedOnlyAfterRestore ==
    [][ call'.op \in UnshelveOps
        => LET id == call'.shelfId
           IN  /\ (call'.result = "ok" /\ ~call'.keepShelf) => ~MapHas(shelves', id)
               /\ (call'.result = "ok" /\ call'.keepShelf)
                     => MapHas(shelves', id) /\ shelves' = shelves
               /\ call'.op = "partialUnshelve"
                     => /\ call'.keepShelf
                        /\ shelves' = shelves
                        /\ call'.result = "ok" => MapHas(shelves', id)
               /\ call'.result \in { ConflictThrown, WriteThrown }
                     => MapHas(shelves', id) /\ shelves' = shelves
               /\ call'.result = "pending" => shelves' = shelves
               /\ shelves' # shelves
                     => /\ call'.result = "ok"
                        /\ ~call'.keepShelf
                        /\ pc' = "idle"
                        /\ pc = "unshelve" => Len(frame.remaining) = 1
                        /\ pc = "idle"
                              => filesToRestore(MapGet(shelves, id),
                                                call'.selectedFiles) = <<>>
                        /\ storedShelves' = savedShelves(shelves') ]_vars

C8_Witness ==
    /\ call.op = "unshelve"
    /\ call.result = "ok"
    /\ ~call.keepShelf
    /\ ~call.selectedFiles.given
    /\ ~MapHas(shelves, call.shelfId)

\* C9: for a shelf made by createShelf with default options from existing
\* files, and no file edited since the call returned, previewUnshelve reports
\* hasConflicts = FALSE, and unshelve with default options never throws for
\* conflicts or a missing shelf: unless the file system rejects a write it
\* ends successfully, each file of the shelf then holds its shelved content
\* and getShelf(id) is undefined.
C9_ShelveThenUnshelve ==
    [][ call'.quiet
        => /\ call'.op = "previewUnshelve"
                 => call'.result = "ok" /\ ~call'.report.hasConflicts
           /\ ( /\ call'.op = "unshelve"
                /\ ~call'.keepShelf /\ ~call'.forceMerge /\ ~call'.selectedFiles.given )
                 => /\ call'.result \in { "pending", "ok", WriteThrown }
                    /\ call'.result = "ok"
                          => /\ ~MapHas(shelves', call'.shelfId)
                             /\ LET files == MapGet(shelves, call'.shelfId).files
                                IN  \A i \in DOMAIN files :
                                       disk'[files[i].path] = files[i].shelvedContent ]_vars

C9_Witness ==
    /\ call.op = "unshelve"
    /\ call.quiet
    /\ call.result = "ok"
    /\ ~call.keepShelf /\ ~call.forceMerge /\ ~call.selectedFiles.given
    /\ ~MapHas(shelves, call.shelfId)
    /\ \A p \in PathInputs : disk[p] # NoFile

\* the shelved files whose content on disk detectConflicts finds conflicts in
ConflictingIn(shelf, dsk) ==
    SelectSeq(shelf.files,
              LAMBDA f : dsk[f.path] # NoFile /\ detectConflicts(f, dsk[f.path]) # <<>>)

\* C10: the report of previewUnshelve lists in conflictingFiles exactly the
\* shelved files that exist and for which detectConflicts on the content on
\* disk is non-empty; hasConflicts is TRUE iff that list is non-empty;
\* canAutoMerge is TRUE only if every conflicting file has exactly one
\* conflict; a shelved file missing from disk has a resolvable 'does not
\* exist' detail and is not in conflictingFiles; the call changes no file
\* and nothing of the store.
C10_PreviewReport ==
    [][ (call'.op = "previewUnshelve" /\ call'.result = "ok")
        => LET shelf == MapGet(shelves, call'.shelfId)
               report == call'.report
               conflicting == ConflictingIn(shelf, disk)
           IN  /\ report.conflictingFiles
                     = [ i \in DOMAIN conflicting |-> conflicting[i].relativePath ]
               /\ report.hasConflicts <=> (conflicting # <<>>)
               /\ report.canAutoMerge
                     => \A i \in DOMAIN conflicting :
                           Len(detectConflicts(conflicting[i],
                                               disk[conflicting[i].path])) = 1
               /\ \A i \in DOMAIN shelf.files :
                     disk[shelf.files[i].path] = NoFile
                        => /\ \E j \in DOMAIN report.details :
                                 report.details[j]
                                    = ConflictDetails(shelf.files[i].relativePath,
                                                      << FileMissing >>, TRUE)
                           /\ \A j \in DOMAIN report.conflictingFiles :
                                 report.conflictingFiles[j] # shelf.files[i].relativePath
               /\ UNCHANGED << disk, shelves, storedShelves, pristine, pc >> ]_vars

C10_Witness ==
    /\ call.op = "previewUnshelve"
    /\ call.result = "ok"
    /\ call.report.hasConflicts
    /\ ~call.report.canAutoMerge
    /\ \E j \in DOMAIN call.report.details :
          Len(call.report.details[j].conflicts) = 2

(***************************************************************************)
(*   SpecConflicts : ShelvedFile.canRestore / detectConflicts on texts of  *)
(*   up to MaxLines lines, the texts of the documented example included    *)
(***************************************************************************)
LineInputs == { "", "b" }

ExampleOriginal == << "a", "b", "c" >>

ExampleShelved == << "a", "X", "c" >>

ExampleCurrent == << "a", "Y", "c" >>

TextInputs ==
    UNION { [ 1..n -> LineInputs ] : n \in 1..MaxLines }
       \cup { ExampleOriginal, ExampleShelved, ExampleCurrent }

ConflictsArg(original, shelved, current) ==
    [ op |-> "detectConflicts", original |-> original, shelved |-> shelved,
      current |-> current ]

InitConflicts ==
    /\ InitStores
    /\ arg \in { ConflictsArg(o, s, c) : o \in TextInputs, s \in TextInputs, c \in TextInputs }
    /\ ret = NoRet
    /\ changeLists = initializeDefaultChangeList

\* new ShelvedFile(..., original, shelved, ...) asked canRestore(current) and
\* detectConflicts(current)
CallDetectConflicts ==
    /\ ret = NoRet
    /\ LET file == ShelvedFile("p1", "r1", arg.original, arg.shelved)
       IN  ret' = [ op |-> "detectConflicts",
                    canRestore |-> canRestore(file, arg.current),
                    conflicts |-> detectConflicts(file, arg.current) ]
    /\ UNCHANGED << clVars, shVars, svVars, arg, changeLists >>

NextConflicts == CallDetectConflicts

SpecConflicts == InitConflicts /\ [][NextConflicts]_vars

\* the lines that differ from the original in the current and in the shelved
\* text, a line past the end of a text read as the empty line
BothChanged(original, shelved, current) ==
    { i \in 1..Max(Len(original), Max(Len(current), Len(shelved))) :
         /\ LineAt(original, i) # LineAt(current, i)
         /\ LineAt(original, i) # LineAt(shelved, i) }

\* C11 as stated: a conflict is reported for line i exactly when line i
\* differs from the original in both the current and the shelved text, and
\* nothing else is reported.
C11_OnlyLineConflicts ==
    ret.op = "detectConflicts"
       => /\ \A i \in 1..(3 * MaxLines) :
                (\E j \in DOMAIN ret.conflicts : ret.conflicts[j] = LineConflict(i))
                   <=> i \in BothChanged(arg.original, arg.shelved, arg.current)
          /\ \A j \in DOMAIN ret.conflicts : ret.conflicts[j].kind = LineConflict(1).kind

\* C11, amended: when current equals original canRestore is TRUE and nothing
\* is reported; otherwise exactly the lines that differ from the original in
\* both texts are reported, once each and in order, and, only when there is
\* no such line and current has another number of lines than original, the
\* single entry 'File length changed since shelving'; for original a/b/c,
\* shelved a/X/c, current a/Y/c the report is exactly the conflict of line 2.
C11_DetectConflicts ==
    ret.op = "detectConflicts"
       => LET both == BothChanged(arg.original, arg.shelved, arg.current)
              lengthOnly == /\ arg.original # arg.current
                            /\ both = {}
                            /\ Len(arg.original) # Len(arg.current)
          IN  /\ ret.canRestore <=> (arg.original = arg.current)
              /\ ret.canRestore => ret.conflicts = <<>>
              /\ ~ret.canRestore
                    => /\ \A i \in 1..(3 * MaxLines) :
                             (\E j \in DOMAIN ret.conflicts :
                                 ret.conflicts[j] = LineConflict(i)) <=> i \in both
                       /\ \A j, k \in DOMAIN ret.conflicts :
                             ( /\ j < k
                               /\ ret.conflicts[j].kind = LineConflict(1).kind
                               /\ ret.conflicts[k].kind = LineConflict(1).kind )
                                => ret.conflicts[j].line < ret.conflicts[k].line
                       /\ (\E j \in DOMAIN ret.conflicts : ret.conflicts[j] = LengthChanged)
                             <=> lengthOnly
                       /\ Len(ret.conflicts) = Cardinality(both) + (IF lengthOnly THEN 1 ELSE 0)
              /\ ( /\ arg.original = ExampleOriginal
                   /\ arg.shelved = ExampleShelved
                   /\ arg.current = ExampleCurrent )
                    => ret.conflicts = << LineConflict(2) >>

C11_Witness ==
    /\ ret.op = "detectConflicts"
    /\ arg.original = ExampleOriginal
    /\ arg.shelved = ExampleShelved
    /\ arg.current = ExampleCurrent
    /\ ret.conflicts = << LineConflict(2) >>

(***************************************************************************)
(*   SpecStatus : FileStatusService (services/fileStatusService.ts)        *)
(*   classifying one path from the signals of the two backends             *)
(***************************************************************************)
\* Status codes of a change in repository.state.workingTreeChanges
WorkingStatusInputs == { 0, 5, 6, 7 }

\* what the editor's Git API holds for the path: is it in mergeChanges,
\* indexChanges, untrackedChanges, workingTreeChanges (and with which status)
ApiSignals(merge, index, untracked, working, workingStatus) ==
    [ merge |-> merge, index |-> index, untracked |-> untracked, working |-> working,
      workingStatus |-> workingStatus ]

ApiSignalsInputs ==
    { ApiSignals(m, i, u, w, ws) :
         m \in BOOLEAN, i \in BOOLEAN, u \in BOOLEAN, w \in BOOLEAN, ws \in WorkingStatusInputs }

\* the buckets of GitProvider.getStatus() that include the path
ProviderSignals(untracked, modified, staged, deleted, added, conflicted) ==
    [ untracked |-> untracked, modified |-> modified, staged |-> staged,
      deleted |-> deleted, added |-> added, conflicted |-> conflicted ]

ProviderSignalsInputs ==
    { ProviderSignals(u, m, s, d, a, c) :
         u \in BOOLEAN, m \in BOOLEAN, s \in BOOLEAN, d \in BOOLEAN, a \in BOOLEAN,
         c \in BOOLEAN }

\* how the path reaches the API: workspace folder found, vscode.git active,
\* repository found
ApiAccessInputs ==
    { [ workspaceFolder |-> TRUE, gitActive |-> TRUE, repository |-> TRUE ],
      [ workspaceFolder |-> TRUE, gitActive |-> TRUE, repository |-> FALSE ],
      [ workspaceFolder |-> TRUE, gitActive |-> FALSE, repository |-> FALSE ],
      [ workspaceFolder |-> FALSE, gitActive |-> TRUE, repository |-> TRUE ] }

detectStatusWithGitProviderStatus(provider, getStatusThrows) ==
    IF getStatusThrows THEN "clean"
    ELSE IF provider.untracked THEN "untracked"
    ELSE IF provider.modified THEN "modified"
    ELSE IF provider.staged THEN "staged"
    ELSE IF provider.deleted THEN "deleted"
    ELSE IF provider.added THEN "added"
    ELSE IF provider.conflicted THEN "conflicted"
    ELSE "clean"

\* the switch on workingChange.status
workingChangeStatus(workingStatus) ==
    IF workingStatus = 5 THEN "modified"
    ELSE IF workingStatus = 6 THEN "deleted"
    ELSE IF workingStatus = 7 THEN "added"
    ELSE "modified"

\* does detectFileStatus answer from the editor's Git API
answersFromApi(access, api) ==
    /\ access.workspaceFolder
    /\ access.gitActive
    /\ access.repository
    /\ api.merge \/ api.index \/ api.untracked \/ api.working

detectFileStatusStatus(access, api, provider, getStatusThrows) ==
    IF ~access.workspaceFolder THEN "clean"
    ELSE IF answersFromApi(access, api)
    THEN IF api.merge THEN "conflicted"
         ELSE IF api.index THEN "staged"
         ELSE IF api.untracked THEN "untracked"
         ELSE workingChangeStatus(api.workingStatus)
    ELSE detectStatusWithGitProviderStatus(provider, getStatusThrows)

InitStatus ==
    /\ InitStores
    /\ arg \in { [ op |-> "status", access |-> x, api |-> a, provider |-> p,
                  getStatusThrows |-> t ] :
                  x \in ApiAccessInputs, a \in ApiSignalsInputs,
                  p \in ProviderSignalsInputs, t \in BOOLEAN }
    /\ ret = NoRet
    /\ changeLists = initializeDefaultChangeList

detectFileStatus ==
    /\ ret = NoRet
    /\ ret' = [ op |-> "detectFileStatus",
                status |-> detectFileStatusStatus(arg.access, arg.api, arg.provider,
                                                  arg.getStatusThrows) ]
    /\ UNCHANGED << clVars, shVars, svVars, arg, changeLists >>

detectStatusWithGitProvider ==
    /\ ret = NoRet
    /\ ret' = [ op |-> "detectStatusWithGitProvider",
                status |-> detectStatusWithGitProviderStatus(arg.provider,
                                                             arg.getStatusThrows) ]
    /\ UNCHANGED << clVars, shVars, svVars, arg, changeLists >>

NextStatus ==
    \/ detectFileStatus
    \/ detectStatusWithGitProvider

SpecStatus == InitStatus /\ [][NextStatus]_vars

\* Conflicted > Staged (index) > Untracked > Modified > Clean
ByPrecedence(conflicted, staged, untracked, modified, status) ==
    /\ conflicted => status = "conflicted"
    /\ (~conflicted /\ staged) => status = "staged"
    /\ (~conflicted /\ ~staged /\ untracked) => status = "untracked"
    /\ (~conflicted /\ ~staged /\ ~untracked /\ modified) => status = "modified"

\* C12: whatever signals apply to the path, both detectFileStatus (answering
\* from the editor's Git API) and detectStatusWithGitProvider (answering from
\* GitProvider.getStatus()) classify it by Conflicted > Staged > Untracked >
\* Modified > Clean.
C12_StatusPrecedence ==
    /\ ( /\ ret.op = "detectFileStatus"
         /\ answersFromApi(arg.access, arg.api) )
          => ByPrecedence(arg.api.merge, arg.api.index, arg.api.untracked,
                          arg.api.working /\ arg.api.workingStatus \notin { 6, 7 },
                          ret.status)
    /\ ( /\ ret.op = "detectStatusWithGitProvider"
         /\ ~arg.getStatusThrows )
          => /\ ByPrecedence(arg.provider.conflicted, arg.provider.staged,
                             arg.provider.untracked, arg.provider.modified, ret.status)
             /\ ( /\ ~arg.provider.conflicted /\ ~arg.provider.staged
                  /\ ~arg.provider.untracked /\ ~arg.provider.modified
                  /\ ~arg.provider.deleted /\ ~arg.provider.added )
                   => ret.status = "clean"

(***************************************************************************)
(*   SpecManager : ChangeListManager.refresh (views/changeListManager.ts)  *)
(*   and GitFileDecorationProvider.updateFileStatus over the raw status    *)
(*   GitProvider.getStatus() returns                                       *)
(***************************************************************************)
\* IGitStatus: the buckets read by refresh and determineGitStatus; untracked
\* is the paths of status.files with workingDir '?'
GitStatus(modified, created, deleted, renamed, conflicted, untracked) ==
    [ modified |-> modified, created |-> created, deleted |-> deleted,
      renamed |-> renamed, conflicted |-> conflicted, untracked |-> untracked ]

\* a bucket of the raw status: a list of paths
BucketInputs == { <<>>, << "p1" >>, << "p2" >>, << "p1", "p2" >> }

GitStatusInputs ==
    { GitStatus(m, c, d, r, x, u) :
         m \in BucketInputs, c \in BucketInputs, d \in BucketInputs,
         r \in BucketInputs, x \in BucketInputs, u \in BucketInputs }

Includes(bucket, filePath) == \E i \in DOMAIN bucket : bucket[i] = filePath

\* ChangeListManager.createFileChange; relative paths as in FileP1 and FileP2
createFileChange(filePath, status, isStaged) ==
    [ path |-> filePath, relativePath |-> IF filePath = "p1" THEN "r1" ELSE "r2",
      status |-> status, isStaged |-> isStaged, isSelected |-> FALSE ]

\* bucket.forEach(filePath => fileChanges.push(createFileChange(...)))
FileChangesOf(bucket, status, isStaged) ==
    [ i \in DOMAIN bucket |-> createFileChange(bucket[i], status, isStaged) ]

\* refresh: the fileChanges array it builds from the buckets
refreshFileChanges(status) ==
    FileChangesOf(status.modified, "M", FALSE)
       \o FileChangesOf(status.created, "A", TRUE)
       \o FileChangesOf(status.deleted, "D", FALSE)
       \o FileChangesOf(status.renamed, "R", FALSE)
       \o FileChangesOf(status.conflicted, "X", FALSE)
       \o FileChangesOf(status.untracked, "U", FALSE)

determineGitStatus(filePath, status) ==
    IF Includes(status.conflicted, filePath) THEN "conflicted"
    ELSE IF Includes(status.created, filePath) THEN "added"
    ELSE IF Includes(status.deleted, filePath) THEN "deleted"
    ELSE IF Includes(status.modified, filePath) THEN "modified"
    ELSE IF Includes(status.untracked, filePath) THEN "untracked"
    ELSE "clean"

\* updateFileStatus: the paths of allFiles
allFiles(status) ==
    { p \in PathInputs :
         \/ Includes(status.modified, p) \/ Includes(status.created, p)
         \/ Includes(status.deleted, p) \/ Includes(status.renamed, p)
         \/ Includes(status.conflicted, p) \/ Includes(status.untracked, p) }

\* fileStatusCache after the loop over allFiles; "none" for a path not in it
fileStatusCacheOf(status) ==
    [ p \in PathInputs |->
        IF p \in allFiles(status) THEN determineGitStatus(p, status) ELSE "none" ]

\* arg: what gitProvider.getStatus() answers in this run
GetStatus(status, throws) == [ op |-> "getStatus", status |-> status, throws |-> throws ]

InitManager ==
    /\ InitStores
    /\ arg \in { GetStatus(status, throws) : status \in GitStatusInputs, throws \in BOOLEAN }
    /\ ret = NoRet
    /\ changeLists = initializeDefaultChangeList

\* ChangeListManager.refresh()
refresh ==
    /\ changeLists' =
          IF arg.throws THEN changeLists
          ELSE LET defaultChangeList == MapGet(changeLists, DefaultId)
               IN  MapSet(changeLists,
                          Changelist(defaultChangeList.id, defaultChangeList.name,
                                     refreshFileChanges(arg.status),
                                     defaultChangeList.isDefault,
                                     defaultChangeList.isActive))
    /\ UNCHANGED << clVars, shVars, svVars, arg, ret >>

\* GitFileDecorationProvider.updateFileStatus(); ret is its fileStatusCache
updateFileStatus ==
    /\ ret' = [ op |-> "updateFileStatus",
                fileStatusCache |-> IF arg.throws
                                    THEN [ p \in PathInputs |-> "none" ]
                                    ELSE fileStatusCacheOf(arg.status) ]
    /\ UNCHANGED << clVars, shVars, svVars, arg, changeLists >>

NextManager ==
    \/ refresh
    \/ updateFileStatus

SpecManager == InitManager /\ [][NextManager]_vars

\* C13: when the raw status lists a path both as conflicted and as modified,
\* after refresh() the default changelist has no FileChange of that path with
\* status Modified, and updateFileStatus() computes Conflicted for the path.
C13_ConflictedNeverModified ==
    \A p \in PathInputs :
       ( /\ ~arg.throws
         /\ Includes(arg.status.conflicted, p)
         /\ Includes(arg.status.modified, p) )
          => /\ LET files == MapGet(changeLists, DefaultId).files
                IN  \A i \in DOMAIN files : files[i].path = p => files[i].status # "M"
             /\ ret.op = "updateFileStatus" => ret.fileStatusCache[p] = "conflicted"

(***************************************************************************)
(* Properties of the ChangelistStore: names and errors                     *)
(***************************************************************************)
NamesOf(m) == { m[i].name : i \in DOMAIN m }

NamesDistinct(m) == \A i, j \in DOMAIN m : i # j => m[i].name # m[j].name

\* C14: createChangelist adds a changelist only under a non-empty name no
\* changelist has, renameChangelist gives a changelist only a non-empty name
\* no other changelist has, and so after any sequence of createChangelist,
\* renameChangelist and deleteChangelist no two changelists have the same
\* name.
C14_NamesDistinct ==
    [][ /\ NamesDistinct(changelists')
        /\ \A i \in DOMAIN changelists' : changelists'[i].name # <<>>
        /\ (last'.op = "createChangelist" /\ last'.result = "ok")
              => LET created == changelists'[Len(changelists')]
                 IN  /\ Len(changelists') = Len(changelists) + 1
                     /\ created.name \notin NamesOf(changelists)
                     /\ created.name = Trim(created.name)
        /\ (last'.op = "createChangelist" /\ last'.result = "throw")
              => changelists' = changelists
        /\ (last'.op = "renameChangelist" /\ last'.result = "ok")
              => LET renamed == MapGet(changelists', last'.id)
                 IN  \A i \in DOMAIN changelists :
                        changelists[i].id # last'.id => changelists[i].name # renamed.name
      ]_vars

C14_Witness ==
    /\ Len(changelists) = 3
    /\ last.op = "createChangelist"
    /\ last.result = "throw"

\* C15: deleteChangelist('default') throws, deleteChangelist(id) throws for
\* an id that is not in the store, and in both cases the changelists, their
\* files and the active id are as before.
C15_DeleteThrows ==
    [][ ( /\ last'.op = "deleteChangelist"
          /\ last'.id = DefaultId \/ ~MapHas(changelists, last'.id) )
        => ( /\ last'.result = "throw"
             /\ changelists' = changelists
             /\ activeChangelistId' = activeChangelistId ) ]_vars

C15_Witness ==
    /\ last.op = "deleteChangelist"
    /\ last.id = DefaultId
    /\ last.result = "throw"
    /\ Len(MapGet(changelists, DefaultId).files) > 0
    /\ Len(changelists) > 1

\* C16 as stated: moveFiles throws whenever fromId or toId is not in the
\* store, whatever the paths, and leaves the store unchanged.
C16_MoveFilesThrowsOnUnknownId ==
    [][ ( /\ last'.op = "moveFiles"
          /\ ~MapHas(changelists, last'.id) \/ ~MapHas(changelists, last'.toId) )
        => ( /\ last'.result = "throw"
             /\ changelists' = changelists
             /\ activeChangelistId' = activeChangelistId ) ]_vars

\* C16, amended: moveFiles with fromId # toId throws whenever fromId or toId
\* is not in the store, whatever the paths, and leaves the store unchanged;
\* with fromId = toId it returns without throwing and without any change,
\* whether or not the id is in the store.
C16_MoveFilesThrowsOnUnknownOtherId ==
    [][ last'.op = "moveFiles"
        => /\ ( /\ last'.id # last'.toId
                /\ ~MapHas(changelists, last'.id) \/ ~MapHas(changelists, last'.toId) )
                 => ( /\ last'.result = "throw"
                      /\ changelists' = changelists
                      /\ activeChangelistId' = activeChangelistId )
           /\ last'.id = last'.toId
                 => ( /\ last'.result = "noop"
                      /\ changelists' = changelists
                      /\ activeChangelistId' = activeChangelistId ) ]_vars

C16_Witness ==
    /\ last.op = "moveFiles"
    /\ last.result = "throw"
    /\ last.paths # {}
    /\ MapHas(changelists, last.id)
    /\ ~MapHas(changelists, last.toId)
    /\ Len(MapGet(changelists, last.id).files) > 0

\* C17: renameChangelist(id, newName) throws when newName is empty or
\* whitespace or is (trimmed) the name of another changelist, and the store is
\* as before; with the changelist's own name it does not throw and the
\* changelist keeps its name, files and flags.
C17_RenameThrows ==
    [][ \A id \in AllIds, newName \in MoreNameInputs :
          renameChangelist(id, newName)
             => /\ ( \/ Trim(newName) = <<>>
                     \/ \E i \in DOMAIN changelists :
                           changelists[i].id # id /\ changelists[i].name = Trim(newName) )
                      => /\ last'.result = "throw"
                         /\ changelists' = changelists
                         /\ activeChangelistId' = activeChangelistId
                /\ ( /\ MapHas(changelists, id)
                     /\ MapGet(changelists, id).name = newName )
                      => /\ last'.result = "ok"
                         /\ changelists' = changelists ]_vars

C17_Witness ==
    /\ last.op = "renameChangelist"
    /\ last.result = "throw"
    /\ MapHas(changelists, last.id)
    /\ Len(changelists) = 3

PathsDistinct(cl) ==
    \A i, j \in DOMAIN cl.files : i # j => cl.files[i].path # cl.files[j].path

\* C18: every changelist, of the ChangelistStore and of the ChangeListManager,
\* holds pairwise distinct file paths, whatever calls and whatever raw status
\* produced it.
C18_PathsUnique ==
    /\ \A i \in DOMAIN changelists : PathsDistinct(changelists[i])
    /\ \A i \in DOMAIN changeLists : PathsDistinct(changeLists[i])

(***************************************************************************)
(* Changelist.addFile and Changelist.removeFile as functions: a changelist *)
(* built by the constructor from any files array (the constructor stores   *)
(* the array as given), a FileChange and a path.  Neither method assigns a *)
(* field of the receiver, so the receiver after the call is the receiver   *)
(* before it; whether the returned reference is the receiver is computed   *)
(* from the branch the code takes.                                         *)
(***************************************************************************)
FileP1Added == FileChange("p1", "r1", "A")

ChangelistFileInputs == { FileP1, FileP2, FileP1Added }

ChangelistPathInputs == { "p1", "p2", "p3" }

ChangelistInputs ==
    { Changelist(OldId, <<"W">>, files, FALSE, FALSE) :
         files \in UNION { [ 1..n -> ChangelistFileInputs ] : n \in 0..MaxFiles } }

ChangelistArg(cl, file, filePath) ==
    [ op |-> "changelist", cl |-> cl, file |-> file, filePath |-> filePath ]

InitChangelist ==
    /\ InitStores
    /\ arg \in { ChangelistArg(cl, f, p) :
                    cl \in ChangelistInputs, f \in ChangelistFileInputs,
                    p \in ChangelistPathInputs }
    /\ ret = NoRet
    /\ changeLists = initializeDefaultChangeList

\* const once = cl.addFile(f); const twice = once.addFile(f)
CallAddFile ==
    /\ ret = NoRet
    /\ LET once == addFile(arg.cl, arg.file)
           twice == addFile(once, arg.file)
       IN  ret' = [ op |-> "addFile", receiver |-> arg.cl,
                    result |-> once, isThis |-> addFileReturnsThis(arg.cl, arg.file),
                    again |-> twice ]
    /\ UNCHANGED << clVars, shVars, svVars, arg, changeLists >>

\* const result = cl.removeFile(p)
CallRemoveFile ==
    /\ ret = NoRet
    /\ ret' = [ op |-> "removeFile", receiver |-> arg.cl,
                result |-> removeFile(arg.cl, arg.filePath),
                isThis |-> removeFileReturnsThis(arg.cl, arg.filePath),
                again |-> removeFile(arg.cl, arg.filePath) ]
    /\ UNCHANGED << clVars, shVars, svVars, arg, changeLists >>

NextChangelist ==
    \/ CallAddFile
    \/ CallRemoveFile

SpecChangelist == InitChangelist /\ [][NextChangelist]_vars

Occurrences(files, file) == Cardinality({ i \in DOMAIN files : files[i] = file })

\* C19: for a FileChange f whose path is not in cl, cl.addFile(f) holds f
\* exactly once and adding f again gives a changelist of the same length; for
\* a path p not in cl, cl.removeFile(p) returns cl itself; the receiver is
\* the same after either call.
C19_NoOpDetection ==
    /\ ( ret # NoRet /\ ret.op = "addFile" /\ ~HasPath(arg.cl.files, arg.file.path) )
          => /\ Occurrences(ret.result.files, arg.file) = 1
             /\ Len(ret.again.files) = Len(ret.result.files)
             /\ ret.receiver = arg.cl
    /\ ( ret # NoRet /\ ret.op = "removeFile" /\ ~HasPath(arg.cl.files, arg.filePath) )
          => /\ ret.isThis
             /\ ret.result = arg.cl
             /\ ret.receiver = arg.cl

C19_Witness ==
    /\ ret # NoRet
    /\ ret.op = "addFile"
    /\ ~HasPath(arg.cl.files, arg.file.path)
    /\ Len(arg.cl.files) = 1
    /\ Len(ret.again.files) = 2

(***************************************************************************)
(* GutterDecorationService.parseDiff.  A line of diff.split('\n') is kept  *)
(* as what the parser reads of it: the prefix startsWith tests, and for a  *)
(* line starting with '@@' the digits the pattern                          *)
(* /@@ -\d+,?\d* \+(\d+),?\d* @@/ captures, or no match.                   *)
(***************************************************************************)
NoMatch == <<>>

DiffLine(prefix, match) == [ prefix |-> prefix, match |-> match ]

\* '@@ -a,b +c,d @@' with c written as the digits newStart
HunkHeader(newStart) == DiffLine("@@", newStart)

MalformedHeader == DiffLine("@@", NoMatch)

AddedLine == DiffLine("+", NoMatch)

DeletedLine == DiffLine("-", NoMatch)

ContextLine == DiffLine(" ", NoMatch)

NoNewlineLine == DiffLine("\\", NoMatch)

startsWith(line, prefix) == line.prefix = prefix

RECURSIVE parseInt(_)
parseInt(digits) ==
    IF digits = <<>>
    THEN 0
    ELSE 10 * parseInt(SubSeq(digits, 1, Len(digits) - 1)) + digits[Len(digits)]

LineChange(type, startLine, endLine) ==
    [ type |-> type, startLine |-> startLine, endLine |-> endLine ]

addOrExtendChangeAlwaysPushes(changes, type, line) ==
    Append(changes, LineChange(type, line, line))

addOrExtendChange(changes, type, line) ==
    IF /\ changes # <<>>
       /\ changes[Len(changes)].type = type
       /\ changes[Len(changes)].endLine = line - 1
    THEN [ changes EXCEPT ![Len(changes)].endLine = line ]
    ELSE Append(changes, LineChange(type, line, line))

\* the body of the for loop of parseDiff, on the locals changes, currentLine
\* and inHunk
parseDiffLine(st, line) ==
    IF startsWith(line, "@@")
    THEN IF line.match # NoMatch
         THEN [ st EXCEPT !.currentLine = parseInt(line.match) - 1, !.inHunk = TRUE ]
         ELSE st
    ELSE IF st.inHunk
         THEN IF startsWith(line, "+")
              THEN [ st EXCEPT !.changes = addOrExtendChange(st.changes, "added", st.currentLine),
                               !.currentLine = st.currentLine + 1 ]
              ELSE IF startsWith(line, "-")
                   THEN [ st EXCEPT !.changes =
                             addOrExtendChange(st.changes, "deleted", st.currentLine - 1) ]
                   ELSE IF ~startsWith(line, "\\")
                        THEN [ st EXCEPT !.currentLine = st.currentLine + 1 ]
                        ELSE st
         ELSE st

RECURSIVE parseDiffLoop(_, _)
parseDiffLoop(st, lines) ==
    IF lines = <<>>
    THEN st
    ELSE parseDiffLoop(parseDiffLine(st, Head(lines)), Tail(lines))

parseDiff(lines) ==
    parseDiffLoop([ changes |-> <<>>, currentLine |-> 0, inHunk |-> FALSE ], lines).changes

NewStartInputs == { <<1>>, <<1, 2>> }

DiffLineInputs ==
    { HunkHeader(c) : c \in NewStartInputs }
       \cup { MalformedHeader, AddedLine, DeletedLine, ContextLine, NoNewlineLine }

\* a hunk header, one context line, one '-' line and two '+' lines
HunkOf(newStart) ==
    << HunkHeader(newStart), ContextLine, DeletedLine, AddedLine, AddedLine >>

ExampleDiff == HunkOf(<<1>>)

DiffInputs ==
    UNION { [ 1..n -> DiffLineInputs ] : n \in 1..MaxDiffLines }
       \cup { HunkOf(c) : c \in NewStartInputs }

InitDiff ==
    /\ InitStores
    /\ arg \in { [ op |-> "parseDiff", lines |-> lines ] : lines \in DiffInputs }
    /\ ret = NoRet
    /\ changeLists = initializeDefaultChangeList

CallParseDiff ==
    /\ ret = NoRet
    /\ ret' = [ op |-> "parseDiff", changes |-> parseDiff(arg.lines) ]
    /\ UNCHANGED << clVars, shVars, svVars, arg, changeLists >>

NextDiff == CallParseDiff

SpecDiff == InitDiff /\ [][NextDiff]_vars

\* C20 as stated: for the header '@@ -1,3 +1,4 @@' followed by one context
\* line, one '-' line and two '+' lines the parser returns the ranges
\* deleted 1..1 and added 2..3.
C20_ExampleRanges ==
    ( ret # NoRet /\ arg.lines = ExampleDiff )
       => ret.changes = << LineChange("deleted", 1, 1), LineChange("added", 2, 3) >>

\* C20: for a header '@@ -a,b +c,d @@' followed by one context line, one '-'
\* line and two '+' lines the parser returns the ranges deleted c-1..c-1 and
\* added c..c+1; for the header '@@ -1,3 +1,4 @@' these are deleted 0..0 and
\* added 1..2.
C20_ParseDiffRanges ==
    /\ \A c \in NewStartInputs :
          ( ret # NoRet /\ arg.lines = HunkOf(c) )
             => ret.changes = << LineChange("deleted", parseInt(c) - 1, parseInt(c) - 1),
                                 LineChange("added", parseInt(c), parseInt(c) + 1) >>
    /\ ( ret # NoRet /\ arg.lines = ExampleDiff )
          => ret.changes = << LineChange("deleted", 0, 0), LineChange("added", 1, 2) >>

C20_Witness ==
    /\ ret # NoRet
    /\ arg.lines = ExampleDiff
    /\ Len(ret.changes) = 2

\* the lines a range covers
Covered(change) == change.startLine .. change.endLine

\* changes of a longer diff continue the changes of a shorter one: the same
\* ranges in the same places, the last one possibly extended, new ones after
Continues(before, after) ==
    /\ Len(before) <= Len(after)
    /\ \A i \in DOMAIN before :
          \/ after[i] = before[i]
          \/ /\ i = Len(before)
             /\ after[i].type = before[i].type
             /\ after[i].startLine = before[i].startLine
             /\ after[i].endLine >= before[i].endLine

EncounterOrder(lines) ==
    \A k \in 0 .. Len(lines) - 1 :
       Continues(parseDiff(SubSeq(lines, 1, k)), parseDiff(SubSeq(lines, 1, k + 1)))

NoOverlap(changes) ==
    \A i, j \in DOMAIN changes : i # j => Covered(changes[i]) \cap Covered(changes[j]) = {}

Coalesced(changes) ==
    \A i \in DOMAIN changes :
       ( i + 1 \in DOMAIN changes /\ changes[i + 1].type = changes[i].type )
          => changes[i + 1].startLine # changes[i].endLine + 1

\* C21: for every diff the returned ranges are in the order their lines were
\* encountered, no line number is covered by two of them, and same-type
\* changes on adjacent lines are one range.
C21_RangesOrderedDisjoint ==
    ret # NoRet
       => /\ EncounterOrder(arg.lines)
          /\ NoOverlap(ret.changes)
          /\ Coalesced(ret.changes)

WellFormed(line) == startsWith(line, "@@") /\ line.match # NoMatch

Malformed(line) == startsWith(line, "@@") /\ line.match = NoMatch

\* the diff without its malformed headers and without the lines that follow
\* each of them up to the next well-formed header
RECURSIVE SkipMalformed(_, _)
SkipMalformed(lines, skipping) ==
    IF lines = <<>>
    THEN <<>>
    ELSE IF Malformed(Head(lines))
         THEN SkipMalformed(Tail(lines), TRUE)
         ELSE IF WellFormed(Head(lines))
              THEN << Head(lines) >> \o SkipMalformed(Tail(lines), FALSE)
              ELSE IF skipping
                   THEN SkipMalformed(Tail(lines), TRUE)
                   ELSE << Head(lines) >> \o SkipMalformed(Tail(lines), FALSE)

\* C22: the lines between a malformed '@@' line and the next well-formed
\* header produce no ranges, wherever the malformed line stands, and a diff
\* with no well-formed header gives the empty list.
C22_MalformedHeaderSkipped ==
    ret # NoRet
       => /\ ret.changes = parseDiff(SkipMalformed(arg.lines, FALSE))
          /\ ( \A i \in DOMAIN arg.lines : ~WellFormed(arg.lines[i]) ) => ret.changes = <<>>

\* C30: for a diff whose '@@' lines are all well-formed every returned range
\* has 0 <= startLine <= endLine.
C30_RangesWithinFile ==
    ( ret # NoRet /\ \A i \in DOMAIN arg.lines : ~Malformed(arg.lines[i]) )
       => \A i \in DOMAIN ret.changes :
             /\ 0 <= ret.changes[i].startLine
             /\ ret.changes[i].startLine <= ret.changes[i].endLine

(***************************************************************************)
(* HistoryPanel.loadHistory.  The load is suspended once, at the await of  *)
(* gitProvider.raw inside getCommitHistory; requests arrive meanwhile.     *)
(* A commit is kept as its hash and whether parseCommitHistory gave it a   *)
(* valid Date (toISOString throws on an invalid one).                      *)
(***************************************************************************)
CriteriaInputs == { "undefined", "author", "filePath" }

GitCommit(hash, validDate) == [ hash |-> hash, validDate |-> validDate ]

CommitsInputs ==
    { <<>>, << GitCommit("c1", TRUE) >>, << GitCommit("c1", TRUE), GitCommit("c2", FALSE) >> }

serializeCommitThrows(commit) == ~commit.validDate

Loading(flag) == [ type |-> "loading", isLoading |-> flag, count |-> 0 ]

HistoryLoaded(loaded) == [ type |-> "historyLoaded", isLoading |-> FALSE, count |-> Len(loaded) ]

ErrorMessage == [ type |-> "error", isLoading |-> FALSE, count |-> 0 ]

\* this._view?.webview.postMessage(...)
Posted(resolved, messages) == IF resolved THEN messages ELSE <<>>

\* loadHistory up to the await of gitProvider.raw, _view being resolved or not
loadHistoryStart(criteria, resolved, op) ==
    IF isLoading
    THEN /\ hcall' = HistoryCallWith(op, "dropped", <<>>)
         /\ UNCHANGED << isLoading, commits, queries, loads >>
    ELSE /\ loads < MaxLoads
         /\ isLoading' = TRUE
         /\ queries' = Append(queries, criteria)
         /\ loads' = loads + 1
         /\ hcall' = HistoryCallWith(op, "started", Posted(resolved, << Loading(TRUE) >>))
         /\ UNCHANGED commits

loadHistoryUnguarded(criteria) ==
    /\ UNCHANGED << clVars, shVars, fnVars, fsVars, view, commits >>
    /\ loads < MaxLoads
    /\ isLoading' = TRUE
    /\ queries' = Append(queries, criteria)
    /\ loads' = loads + 1
    /\ hcall' = HistoryCallWith("loadHistory", "started", Posted(view, << Loading(TRUE) >>))

\* a 'loadHistory' or 'search' message of the webview, or refresh()
loadHistory(criteria) ==
    /\ UNCHANGED << clVars, shVars, fnVars, fsVars, view >>
    /\ loadHistoryStart(criteria, view, "loadHistory")

\* resolveWebviewView sets _view and loads the initial history
resolveWebviewView ==
    /\ UNCHANGED << clVars, shVars, fnVars, fsVars >>
    /\ view' = TRUE
    /\ loadHistoryStart("undefined", TRUE, "resolveWebviewView")

\* gitProvider.raw settles: getCommitHistory returns the parsed commits, or []
\* when raw threw; loadHistory posts them, or the error when serializing throws
loadHistoryResume(rawThrows, result) ==
    /\ UNCHANGED << clVars, shVars, fnVars, fsVars, view, loads >>
    /\ queries # <<>>
    /\ queries' = Tail(queries)
    /\ LET loaded == IF rawThrows THEN <<>> ELSE result
       IN  /\ commits' = loaded
           /\ IF view /\ \E i \in DOMAIN loaded : serializeCommitThrows(loaded[i])
              THEN hcall' = HistoryCallWith("loadHistoryResume", "error",
                                            << ErrorMessage, Loading(FALSE) >>)
              ELSE hcall' = HistoryCallWith("loadHistoryResume", "loaded",
                               Posted(view, << HistoryLoaded(loaded), Loading(FALSE) >>))
    /\ isLoading' = FALSE

NextHistory ==
    \/ \E criteria \in CriteriaInputs : loadHistory(criteria)
    \/ resolveWebviewView
    \/ \E rawThrows \in BOOLEAN, result \in CommitsInputs : loadHistoryResume(rawThrows, result)

SpecHistory == Init /\ [][NextHistory]_vars

\* C27: at most one history query is in flight; a request made while a load
\* is in flight issues no query and posts nothing; when the load finishes, by
\* success or by error, isLoading is false and the next request is served.
C27_LoadHistoryDropsWhileLoading ==
    /\ [](Len(queries) <= 1)
    /\ [][ /\ \A criteria \in CriteriaInputs :
                loadHistory(criteria)
                   => IF isLoading
                      THEN /\ queries' = queries
                           /\ hcall'.posts = <<>>
                           /\ isLoading'
                      ELSE /\ queries' = << criteria >>
                           /\ hcall'.result = "started"
           /\ \A rawThrows \in BOOLEAN, result \in CommitsInputs :
                loadHistoryResume(rawThrows, result)
                   => /\ ~isLoading'
                      /\ queries' = <<>> ]_vars

\* a request dropped during the second load: the first load has finished and
\* a later request was served
C27_Witness ==
    /\ hcall.op = "loadHistory"
    /\ hcall.result = "dropped"
    /\ loads = 2
    /\ commits # <<>>
    /\ Len(queries) = 1

(***************************************************************************)
(* FileStatusService: the status cache.  A call that misses the cache is   *)
(* suspended while git is asked for each of its paths in turn              *)
(* (detectStatusWithGitProvider awaits gitProvider.getStatus) and writes   *)
(* the cache when it resumes; watcher events and the clock go on meanwhile.*)
(***************************************************************************)
TimeInputs == { 0, 4999, 5000 }

CachedStatusInputs == { "clean", "modified" }

UrisInputs == { << "p1", "p2" >> }

\* the path that is asked for alone and that changes on disk
WatchedInputs == { "p1" }

\* cached && Date.now() - cached.timestamp < this.CACHE_TTL
cacheValidIgnoresAge(entry, t) == entry.cached

cacheValid(entry, t) == entry.cached /\ t - entry.timestamp < CACHE_TTL

PendingCall(op, paths, hits, since) ==
    [ op |-> op, paths |-> paths, hits |-> hits, since |-> since, reports |-> <<>> ]

ReturnedFromCache(path) ==
    Returned(path, statusCache[path].status, statusCache[path].asOf, epoch[path])

\* getFileStatus to its return from the cache or to the await of detectFileStatus
getFileStatus(path) ==
    /\ UNCHANGED << clVars, shVars, fnVars, hpVars, statusCache, now, gitStatus, epoch >>
    /\ asked < MaxCalls
    /\ asked' = asked + 1
    /\ IF cacheValid(statusCache[path], now)
       THEN /\ fcall' = StatusCallWith("getFileStatus", "hit", << ReturnedFromCache(path) >>)
            /\ UNCHANGED pending
       ELSE /\ pending' = Append(pending, PendingCall("getFileStatus", << path >>, <<>>, epoch))
            /\ fcall' = StatusCallWith("getFileStatus", "query", <<>>)

\* getMultipleFileStatus to its return or to the await of batchDetectFileStatus
getMultipleFileStatus(uris) ==
    /\ UNCHANGED << clVars, shVars, fnVars, hpVars, statusCache, now, gitStatus, epoch >>
    /\ asked < MaxCalls
    /\ asked' = asked + 1
    /\ LET hits == SelectSeq(uris, LAMBDA p : cacheValid(statusCache[p], now))
           uncachedUris == SelectSeq(uris, LAMBDA p : ~cacheValid(statusCache[p], now))
           fromCache == [ i \in DOMAIN hits |-> ReturnedFromCache(hits[i]) ]
       IN  IF uncachedUris = <<>>
           THEN /\ fcall' = StatusCallWith("getMultipleFileStatus", "hit", fromCache)
                /\ UNCHANGED pending
           ELSE /\ pending' = Append(pending,
                       PendingCall("getMultipleFileStatus", uncachedUris, fromCache, epoch))
                /\ fcall' = StatusCallWith("getMultipleFileStatus", "query", <<>>)

\* git answers the next path of a call in flight
gitReports(i) ==
    /\ UNCHANGED << clVars, shVars, fnVars, hpVars, statusCache, now, gitStatus, epoch, asked >>
    /\ i \in DOMAIN pending
    /\ Len(pending[i].reports) < Len(pending[i].paths)
    /\ LET path == pending[i].paths[Len(pending[i].reports) + 1]
           report == Returned(path, gitStatus[path], epoch[path], pending[i].since[path])
       IN  pending' = [ pending EXCEPT ![i].reports = Append(@, report) ]
    /\ fcall' = StatusCallWith("gitReports", "ok", <<>>)

\* the call resumes: it caches what git reported, stamped Date.now(), and returns
statusResume(i) ==
    /\ UNCHANGED << clVars, shVars, fnVars, hpVars, now, gitStatus, epoch, asked >>
    /\ i \in DOMAIN pending
    /\ Len(pending[i].reports) = Len(pending[i].paths)
    /\ LET reports == pending[i].reports
           reported == { reports[k].path : k \in DOMAIN reports }
           reportOf(p) == reports[CHOOSE k \in DOMAIN reports : reports[k].path = p]
       IN  /\ statusCache' =
                [ p \in PathInputs |->
                    IF p \in reported
                    THEN CacheEntry(reportOf(p).status, now, reportOf(p).asOf, reportOf(p).since)
                    ELSE statusCache[p] ]
           /\ fcall' = StatusCallWith(pending[i].op, "returned", pending[i].hits \o reports)
    /\ pending' = [ k \in 1 .. Len(pending) - 1 |-> IF k < i THEN pending[k] ELSE pending[k + 1] ]

getCachedStatus(path) ==
    /\ UNCHANGED << clVars, shVars, fnVars, hpVars, statusCache, now, gitStatus, epoch, pending,
                    asked >>
    /\ IF cacheValid(statusCache[path], now)
       THEN fcall' = StatusCallWith("getCachedStatus", "hit", << ReturnedFromCache(path) >>)
       ELSE fcall' = StatusCallWith("getCachedStatus", "undefined",
                                    << Returned(path, NoStatus, epoch[path], epoch[path]) >>)

RECURSIVE SumOver(_, _)
SumOver(f, S) ==
    IF S = {} THEN 0
    ELSE LET x == CHOOSE y \in S : TRUE IN f[x] + SumOver(f, S \ { x })

EventsSoFar == SumOver(epoch, PathInputs)

\* watcher.onDidChange / onDidCreate / onDidDelete: the file changed, and with
\* it possibly what git says of it; invalidateCache(uri)
watcherEvent(path, status) ==
    /\ UNCHANGED << clVars, shVars, fnVars, hpVars, now, pending, asked >>
    /\ EventsSoFar < MaxEvents
    /\ epoch' = [ epoch EXCEPT ![path] = @ + 1 ]
    /\ gitStatus' = [ gitStatus EXCEPT ![path] = status ]
    /\ statusCache' = [ statusCache EXCEPT ![path] = NoEntry ]
    /\ fcall' = StatusCallWith("watcherEvent", "ok", <<>>)

\* time passes
Tick(t) ==
    /\ UNCHANGED << clVars, shVars, fnVars, hpVars, statusCache, gitStatus, epoch, pending, asked >>
    /\ t > now
    /\ now' = t
    /\ fcall' = StatusCallWith("Tick", "ok", <<>>)

NextCache ==
    \/ \E path \in WatchedInputs : getFileStatus(path)
    \/ \E uris \in UrisInputs : getMultipleFileStatus(uris)
    \/ \E i \in 1 .. MaxCalls : gitReports(i)
    \/ \E i \in 1 .. MaxCalls : statusResume(i)
    \/ \E path \in WatchedInputs : getCachedStatus(path)
    \/ \E path \in WatchedInputs, status \in CachedStatusInputs : watcherEvent(path, status)
    \/ \E t \in TimeInputs : Tick(t)

SpecCache == Init /\ [][NextCache]_vars

\* C25: getFileStatus(p) with a cache entry younger than the TTL returns the
\* cached status and asks git nothing; with an entry as old as the TTL or
\* older it asks git again, and getCachedStatus(p) returns undefined.
C25_CacheWithinTTL ==
    [][ \A path \in WatchedInputs :
          /\ getFileStatus(path)
                => IF statusCache[path].cached /\ now - statusCache[path].timestamp < CACHE_TTL
                   THEN /\ pending' = pending
                        /\ fcall'.returned[1].status = statusCache[path].status
                   ELSE /\ Len(pending') = Len(pending) + 1
                        /\ pending'[Len(pending')].paths = << path >>
          /\ ( /\ getCachedStatus(path)
               /\ statusCache[path].cached
               /\ now - statusCache[path].timestamp >= CACHE_TTL )
                => fcall'.returned[1].status = NoStatus ]_vars

\* a call that found an expired entry and asked git again
C25_Witness ==
    /\ fcall.op = "getFileStatus"
    /\ fcall.result = "query"
    /\ pending # <<>>
    /\ LET path == pending[Len(pending)].paths[1]
       IN  /\ statusCache[path].cached
           /\ now - statusCache[path].timestamp >= CACHE_TTL

\* C26: after a watcher event for p the first getFileStatus(p) started after
\* the event asks git (a cache hit is on an entry cached by a call started
\* after the last event), and no call started after the event returns a
\* status git reported before the event.
C26_EventInvalidates ==
    /\ \A k \in DOMAIN fcall.returned : fcall.returned[k].asOf >= fcall.returned[k].since
    /\ ( fcall.op = "getFileStatus" /\ fcall.result = "hit" )
          => statusCache[fcall.returned[1].path].since = epoch[fcall.returned[1].path]

\* the file paths held across all changelists of the store
AllPaths(m) == UNION { PathsOf(m[i].files) : i \in DOMAIN m }

\* C29: createChangelist, deleteChangelist, renameChangelist, moveFiles and
\* setActiveChangelist, succeeding or throwing, leave the set of file paths
\* held across all changelists as it was.
C29_PathsPreserved ==
    [][ last'.op \in { "createChangelist", "deleteChangelist", "renameChangelist",
                       "moveFiles", "setActiveChangelist" }
           => AllPaths(changelists') = AllPaths(changelists) ]_vars

\* a changelist holding a file has been deleted, and a file has been moved
\* out of the default changelist before
C29_Witness ==
    /\ last.op = "deleteChangelist"
    /\ last.result = "ok"
    /\ last.n = 1
    /\ AllPaths(changelists) = { "p1", "p2" }
    /\ Len(MapGet(changelists, DefaultId).files) = 2

\* C28: createShelf(name, files, {removeFromWorkspace: true}) directly
\* followed by unshelve(shelf.id) with default options, no file having been
\* edited from outside, is not refused: the unshelve goes on to restore the
\* files.
C28_RemoveThenUnshelve ==
    [][ ( /\ call.op = "createShelf" /\ call.result = "ok" /\ ~call.quiet
          /\ edits' = 0
          /\ call'.op = "unshelve" /\ call'.shelfId = call.shelfId
          /\ ~call'.keepShelf /\ ~call'.forceMerge /\ ~call'.selectedFiles.given )
           => call'.result = "pending" ]_vars

(***************************************************************************)
(* Both stores over workspaceState: the remaining mutators of the          *)
(* ShelveStore, which run to their save() without reading a file and so    *)
(* also while a createShelf or an unshelve is suspended, and a new session *)
(* constructing each store over what the earlier one left in storage.      *)
(***************************************************************************)
DescriptionInputs == { << "d" >> }

ShelfRenameInputs == { << "a" >> }

ShelvedChangelistInputs == { OldChangelist, createDefault }

renameShelfUnsaved(shelfId, newName) ==
    /\ UNCHANGED << clVars, fnVars, svVars, disk, workspaceOpen, nextShelf, pc, frame, pristine,
                    edits, storedShelves >>
    /\ MapHas(shelves, shelfId)
    /\ shelves' = MapSet(shelves, [ MapGet(shelves, shelfId) EXCEPT !.name = newName ])
    /\ call' = ShelfCall("renameShelf", "ok", shelfId, NoReport)

renameShelf(shelfId, newName) ==
    /\ UNCHANGED << clVars, fnVars, svVars, disk, workspaceOpen, nextShelf, pc, frame, pristine,
                    edits >>
    /\ IF ~MapHas(shelves, shelfId)
       THEN /\ call' = ShelfCall("renameShelf", "throw:Shelf not found", shelfId, NoReport)
            /\ UNCHANGED << shelves, storedShelves >>
       ELSE /\ shelves' = MapSet(shelves, [ MapGet(shelves, shelfId) EXCEPT !.name = newName ])
            /\ storedShelves' = savedShelves(shelves')
            /\ call' = ShelfCall("renameShelf", "ok", shelfId, NoReport)

updateShelfDescription(shelfId, description) ==
    /\ UNCHANGED << clVars, fnVars, svVars, disk, workspaceOpen, nextShelf, pc, frame, pristine,
                    edits >>
    /\ IF ~MapHas(shelves, shelfId)
       THEN /\ call' = ShelfCall("updateShelfDescription", "throw:Shelf not found", shelfId,
                                 NoReport)
            /\ UNCHANGED << shelves, storedShelves >>
       ELSE /\ shelves' = MapSet(shelves,
                                 [ MapGet(shelves, shelfId) EXCEPT !.description = description ])
            /\ storedShelves' = savedShelves(shelves')
            /\ call' = ShelfCall("updateShelfDescription", "ok", shelfId, NoReport)

importShelf(name) ==
    /\ UNCHANGED << clVars, fnVars, svVars, disk, workspaceOpen, pc, frame, pristine, edits >>
    /\ nextShelf <= MaxShelves
    /\ LET shelf == Shelf(generateShelfId(nextShelf), name, <<>>, NoChangelistId,
                          << "Imported from patch" >>)
       IN  /\ shelves' = MapSet(shelves, shelf)
           /\ storedShelves' = savedShelves(shelves')
           /\ call' = ShelfCall("importShelf", "ok", shelf.id, NoReport)
    /\ nextShelf' = nextShelf + 1

\* createShelfFromChangelist up to the first reads of createShelvedFile
createShelfFromChangelist(name, changelist, removeFromWorkspace) ==
    /\ pc = "idle"
    /\ UNCHANGED << clVars, fnVars, svVars, shelves, storedShelves, disk, workspaceOpen, nextShelf,
                    pristine, edits >>
    /\ IF ~workspaceOpen
       THEN /\ call' = ShelfCall("createShelfFromChangelist", "throw:No workspace folder found",
                                 NoShelfId, NoReport)
            /\ UNCHANGED << pc, frame >>
       ELSE IF Len(changelist.files) = 0
       THEN /\ call' = ShelfCall("createShelfFromChangelist",
                                 "throw:No files selected for shelving", NoShelfId, NoReport)
            /\ UNCHANGED << pc, frame >>
       ELSE IF \E i \in DOMAIN changelist.files : disk[changelist.files[i].path] = NoFile
       THEN /\ call' = ShelfCall("createShelfFromChangelist", "throw:readFile", NoShelfId,
                                 NoReport)
            /\ UNCHANGED << pc, frame >>
       ELSE /\ nextShelf <= MaxShelves
            /\ pc' = "createShelfFromChangelist"
            /\ frame' = Frame("createShelfFromChangelist", name, NoShelfId, changelist.files,
                              [ i \in DOMAIN changelist.files |->
                                  disk[changelist.files[i].path] ],
                              <<>>, FALSE, FALSE, NoSelection, removeFromWorkspace, NoReport,
                              FALSE)
                           @@ [ changelist |-> changelist ]
            /\ call' = ShelfCall("createShelfFromChangelist", "pending", NoShelfId, NoReport)

\* createShelfFromChangelist from the reads of getOriginalContent to its return:
\* createShelf sets and saves the shelf, then the shelf with the changelist id
\* is set and saved
createShelfFromChangelistResume ==
    /\ pc = "createShelfFromChangelist"
    /\ UNCHANGED << clVars, fnVars, svVars, workspaceOpen, edits >>
    /\ LET shelf == Shelf(generateShelfId(nextShelf), frame.name,
                          createShelvedFiles(frame.files, frame.currentContents, disk),
                          NoChangelistId,
                          << "Shelved from changelist" >> \o frame.changelist.name)
           updatedShelf == Shelf(shelf.id, shelf.name, shelf.files, frame.changelist.id,
                                 shelf.description)
       IN  /\ shelves' = MapSet(MapSet(shelves, shelf), updatedShelf)
           /\ storedShelves' = savedShelves(shelves')
           /\ disk' = IF frame.removeFromWorkspace
                      THEN removeFilesFromWorkspace(disk, frame.files)
                      ELSE disk
           /\ pristine' = IF frame.removeFromWorkspace
                          THEN (IF disk' = disk THEN pristine ELSE {})
                          ELSE pristine \cup { shelf.id }
           /\ call' = ShelfCallWith("createShelfFromChangelist", "ok", shelf.id, NoReport,
                                    FALSE, FALSE, NoSelection, ~frame.removeFromWorkspace)
    /\ nextShelf' = nextShelf + 1
    /\ pc' = "idle"
    /\ frame' = NoFrame

\* getAllShelves: newest first
getAllShelves(m) == SortSeq(m, LAMBDA a, b : a.id[2] > b.id[2])

\* a later session: new ShelveStore(context), whose constructor runs load()
newShelveStore ==
    /\ pc = "idle"
    /\ UNCHANGED << clVars, fnVars, svVars, storedShelves, disk, workspaceOpen, nextShelf, pc,
                    frame, pristine, edits >>
    /\ shelves' = loadShelves(storedShelves)
    /\ call' = ShelfCall("constructor", "ok", NoShelfId, NoReport)

\* a later session: new ChangelistStore(context)
newChangelistStore ==
    /\ UNCHANGED << shVars, fnVars, svVars >>
    /\ changelists' = << createDefault >>
    /\ activeChangelistId' = DefaultId
    /\ last' = Call("constructor", "ok", 0)
    /\ UNCHANGED << nextId, storedChangelists, storedActive >>

\* the ShelveStore under all its mutators
NextShelveStore ==
    \/ \E name \in ShelfNameInputs, files \in ShelfFilesInputs, removeFromWorkspace \in BOOLEAN :
          createShelf(name, files, removeFromWorkspace)
    \/ createShelfResume
    \/ \E name \in ShelfNameInputs, changelist \in ShelvedChangelistInputs,
          removeFromWorkspace \in BOOLEAN :
             createShelfFromChangelist(name, changelist, removeFromWorkspace)
    \/ createShelfFromChangelistResume
    \/ \E shelfId \in ShelfIds : deleteShelf(shelfId)
    \/ \E shelfId \in ShelfIds, newName \in ShelfRenameInputs : renameShelf(shelfId, newName)
    \/ \E shelfId \in ShelfIds, description \in DescriptionInputs :
          updateShelfDescription(shelfId, description)
    \/ \E name \in ShelfNameInputs : importShelf(name)
    \/ \E shelfId \in ShelfIds, options \in UnshelveOptionsInputs :
          unshelve(shelfId, options.keepShelf, options.forceMerge, options.selectedFiles)
    \/ \E writeFails \in BOOLEAN : unshelveRestore(writeFails)

SpecShelveStore == InitShelveSpec /\ [][NextShelveStore]_vars

\* both stores, each written by one session and constructed again by the next
NextRestart ==
    \/ \E name \in FewNameInputs : createChangelist(name)
    \/ \E id \in AllIds : setActiveChangelist(id)
    \/ save
    \/ newChangelistStore
    \/ \E name \in ShelfNameInputs, files \in ShelfFilesInputs, removeFromWorkspace \in BOOLEAN :
          createShelf(name, files, removeFromWorkspace)
    \/ createShelfResume
    \/ \E name \in ShelfNameInputs : importShelf(name)
    \/ \E shelfId \in ShelfIds, newName \in ShelfRenameInputs : renameShelf(shelfId, newName)
    \/ newShelveStore

SpecRestart == InitShelveSpec /\ [][NextRestart]_vars

\* C23: a ShelveStore constructed over the storage an earlier ShelveStore
\* wrote returns the same shelves from getAllShelves(), and a ChangelistStore
\* constructed over the storage an earlier ChangelistStore.save() wrote holds
\* the same changelists and active id, before any other call on it.
C23_ReloadedAtConstruction ==
    [][ /\ newShelveStore => getAllShelves(shelves') = getAllShelves(shelves)
        /\ ( /\ newChangelistStore
             /\ storedChangelists = [ isArray |-> TRUE,
                                      items |-> [ i \in DOMAIN changelists |->
                                                     toJSON(changelists[i]) ] ]
             /\ storedActive = activeChangelistId )
              => /\ changelists' = changelists
                 /\ activeChangelistId' = activeChangelistId ]_vars

====
